---- MODULE Spec2Model ----
(***************************************************************************)
(* Model of msgraphfs/core.py: the write side of the buffered file handle  *)
(* (AsyncStreamedFileMixin with its two flavours MSGraphBuffredFile and    *)
(* MSGrpahStreamedFile), the upload session it drives and the remote       *)
(* store it talks to.                                                      *)
(*                                                                         *)
(* Bytes are modelled as integers: the k-th byte handed to write() is the  *)
(* integer k, the i-th byte of the content that exists remotely when the   *)
(* handle is opened is -i.  Every byte is therefore distinct and a lost,   *)
(* duplicated or reordered byte is visible.                                *)
(*                                                                         *)
(* A handler (write, flush, close, commit, discard) is one action.  It is  *)
(* computed by threading an execution record X through operators that      *)
(* follow the Python functions:                                            *)
(*   X.h    the handle's fields        X.srv  the remote store             *)
(*   X.log  the requests sent so far   X.now  the clock                    *)
(*   X.exc  the exception raised (NoExc when none)                         *)
(*   X.fail k > 0: the k-th request from now fails (network / 5xx)         *)
(***************************************************************************)
EXTENDS Integers, Sequences, FiniteSets, TLC

VARIABLES h, srv, srv0, log, now, err, calls, stream, fs, cache

vars == <<h, srv, srv0, log, now, err, calls, stream, fs, cache>>

\* ---------------------------------------------------------------- bounds
\* block sizes the handle is opened with (model units)
BlockSizes == {2, 5}
\* a handle is handed at most MaxBlocks blocks and one byte over its life
MaxBlocks == 3
\* the same, when calls come in any order and requests fail
AnyBlocks == 2
\* largest size of the content that exists remotely at open
MaxExisting == 3
\* the clock runs 0..MaxTime
MaxTime == 2
\* life time the store grants a session in every response
SessionTTL == 1
\* most requests that fail over a handle's life
MaxFailures == 1
\* most explicit flush / commit / discard calls over a handle's life
MaxCalls == 1
\* the same, in the life cycle of SpecLife
LifeCalls == 2
\* a handler sends at most this many requests before the injected failure
MaxFailAt == 4

\* ------------------------------------------------------ Python's values
NoExc == "none"
None == "None"
\* self.offset is None / self._upload_expiration_dt is None
NoInt == -1

\* raise RuntimeError("The upload session has expired.")
SessionExpiredError == "RuntimeError: The upload session has expired."
Min(a, b) == IF a < b THEN a ELSE b

\* the content that exists remotely at open: bytes -1, -2, ...
Existing(n) == [i \in 1..n |-> 0 - i]
\* the bytes of a write call of n bytes, when w bytes were written before
Data(w, n) == [i \in 1..n |-> w + i]

\* ------------------------------------------------------------ io.BytesIO
BytesIO == [data |-> <<>>, pos |-> 0]

\* buffer.write(d): overwrite / extend at the current position
BufWrite(b, d) ==
    [data |-> SubSeq(b.data, 1, b.pos) \o d
              \o SubSeq(b.data, b.pos + Len(d) + 1, Len(b.data)),
     pos |-> b.pos + Len(d)]

\* buffer.read(n): the bytes read and the buffer afterwards
BufRead(b, n) ==
    LET e == Min(b.pos + n, Len(b.data))
    IN [bytes |-> SubSeq(b.data, b.pos + 1, e), buf |-> [b EXCEPT !.pos = e]]

\* buffer.read(): everything from the current position
BufReadAll(b) == BufRead(b, Len(b.data))

BufSeek0(b) == [b EXCEPT !.pos = 0]

\* "@microsoft.graph.conflictBehavior" as the code puts it in a request: in
\* the body of createUploadSession ("replace") and of the POST that creates a
\* folder ("fail"), in no other request
conflict_behavior(kind) ==
    IF kind = "POST_create" THEN "replace"
    ELSE IF kind = "POST_children" THEN "fail"
    ELSE None

\* ------------------------------------------------------- the call layer
\* One request through _call_msgraph.  status is "error" when this is the
\* request chosen to fail, "404" when the store has no such item, else "ok".
\* range is the Content-Range <<first, last>> of a chunk, <<>> otherwise.
\* A failed request raises; a 404 raises FileNotFoundError.
\* held says whether the handle held a session (_upload_session_url and
\* _upload_expiration_dt both set) when the request was sent.
Request(X, kind, by, data, range, missing) ==
    LET status == IF X.fail = 1 THEN "error"
                  ELSE IF missing THEN "404" ELSE "ok"
    IN [X EXCEPT
          !.log = Append(@, [kind |-> kind, by |-> by, data |-> data,
                             range |-> range, status |-> status,
                             conflict |-> conflict_behavior(kind),
                             held |-> X.h.url # None /\ X.h.expiry # NoInt]),
          !.fail = IF @ > 0 THEN @ - 1 ELSE 0,
          !.exc = IF status = "error" THEN "HTTPError"
                  ELSE IF status = "404" THEN "FileNotFoundError" ELSE @]

Raised(X) == X.exc # NoExc

\* sequencing: the rest of a function runs unless an exception was raised
Then(R, F(_)) == IF Raised(R) THEN R ELSE F(R)

\* the same for a call that returns a value: M is [X, val]
ThenVal(M, F(_, _)) == IF Raised(M.X) THEN M.X ELSE F(M.X, M.val)

Return(X, v) == [X |-> X, val |-> v]

\* the same inside a call that itself returns a value
ThenRet(M, F(_, _)) == IF Raised(M.X) THEN M ELSE F(M.X, M.val)

\* fs._get_item_id(path, throw_on_missing): the id, or None on a 404
FileId == "file-id"
ParentId == "parent-id"

Missing(X, target) == IF target = "file" THEN ~X.srv.exists ELSE ~X.srv.parent

IdOf(target) == IF target = "file" THEN FileId ELSE ParentId

get_item_id_answer(R, target, throw_on_missing) ==
    IF R.exc = "FileNotFoundError" /\ ~throw_on_missing
    THEN Return([R EXCEPT !.exc = NoExc], None)
    ELSE Return(R, IF Raised(R) THEN None ELSE IdOf(target))

get_item_id(X, target, throw_on_missing) ==
    get_item_id_answer(Request(X, "GET_id", target, <<>>, <<>>, Missing(X, target)),
                       target, throw_on_missing)

\* the item_id property of the handle: looked up when not yet known
item_id(X) ==
    IF X.h.item_id # None THEN Return(X, X.h.item_id)
    ELSE ThenRet(get_item_id(X, "file", FALSE),
                 LAMBDA Y, id : Return([Y EXCEPT !.h.item_id = id], id))

\* the target of an upload: the item's id, else the parent's id and the name
upload_target(X, throw_on_missing) ==
    ThenRet(item_id(X),
            LAMBDA Y, id : IF id = None
                           THEN get_item_id(Y, "parent", throw_on_missing)
                           ELSE Return(Y, id))

\* ------------------------------------------------- the upload session
\* _reset_session_info that leaves the expiry time
reset_session_info_keeps_expiry(hh) ==
    [hh EXCEPT !.url = None, !.chunk_start = 0,
               !.remaining = <<>>, !.write_called = FALSE]

\* _reset_session_info
reset_session_info(hh) ==
    [hh EXCEPT !.url = None, !.expiry = NoInt, !.chunk_start = 0,
               !.remaining = <<>>, !.write_called = FALSE]

\* _is_upload_session_expired
is_upload_session_expired(X) ==
    IF X.h.expiry = NoInt THEN TRUE ELSE X.now > X.h.expiry

\* the store's side of a request on the session URL: 404 once the session
\* is gone
SessionGone(X) == X.srv.sessState # "open"

\* _create_upload_session: POST .../createUploadSession (replace, deferCommit)
create_upload_session(X) ==
    ThenVal(upload_target(X, FALSE),
            LAMBDA Y, id :
              Then(Request(Y, "POST_create", "create_upload_session", <<>>, <<>>,
                           id = None),
                   LAMBDA R : [R EXCEPT !.srv.sess = <<>>,
                                        !.srv.sessState = "open",
                                        !.h.url = "session",
                                        !.h.expiry = R.now + SessionTTL]))

\* self.invalidate_cache(path)
invalidate_cache(c, path) == [c EXCEPT !.inval = Append(@, path)]

\* _upload_content_at_once that invalidates the cache before the PUT
upload_content_at_once_early(X, data) ==
    ThenVal(upload_target(X, TRUE),
            LAMBDA Y, id :
              Then(Request([Y EXCEPT !.cache = invalidate_cache(@, "file")],
                           "PUT_content", "upload_content_at_once", data, <<>>,
                           FALSE),
                   LAMBDA R : [R EXCEPT !.srv.exists = TRUE,
                                        !.srv.content = data]))

\* _upload_content_at_once: PUT .../content with the whole buffer, then
\* fs.invalidate_cache(self.path)
upload_content_at_once(X, data) ==
    ThenVal(upload_target(X, TRUE),
            LAMBDA Y, id :
              Then(Request(Y, "PUT_content", "upload_content_at_once", data, <<>>,
                           FALSE),
                   LAMBDA R : [R EXCEPT !.srv.exists = TRUE,
                                        !.srv.content = data,
                                        !.cache = invalidate_cache(@, "file")]))

\* _touch that sends nothing
touch_skipped(X) == X

\* fs._touch(path, **self.kwargs) with truncate left at its default True:
\* the branch for an existing item needs "not truncate", so the other branch
\* runs and PUTs empty content under the parent
touch(X) ==
    ThenVal(IF X.h.kw_item_id # None THEN Return(X, X.h.kw_item_id)
            ELSE get_item_id(X, "file", FALSE),
            LAMBDA Y, id :
              ThenVal(get_item_id(Y, "parent", TRUE),
                      LAMBDA Z, pid :
                        Then(Request(Z, "PUT_content", "touch", <<>>, <<>>, FALSE),
                             LAMBDA R : [R EXCEPT !.srv.exists = TRUE,
                                                  !.srv.content = <<>>,
                                                  !.cache = invalidate_cache(@, "file")])))

\* _abort_upload_session without the look at the expiry time
abort_upload_session_unchecked(X) ==
    Then(IF X.h.url # None
         THEN Then(Request(X, "DELETE_session", "abort_upload_session", <<>>, <<>>,
                           SessionGone(X)),
                   LAMBDA R : [R EXCEPT !.srv.sessState = "deleted"])
         ELSE X,
         LAMBDA R : [R EXCEPT !.h = reset_session_info(@)])

\* _abort_upload_session
abort_upload_session(X) ==
    Then(IF X.h.url # None /\ ~is_upload_session_expired(X)
         THEN Then(Request(X, "DELETE_session", "abort_upload_session", <<>>, <<>>,
                           SessionGone(X)),
                   LAMBDA R : [R EXCEPT !.srv.sessState = "deleted"])
         ELSE X,
         LAMBDA R : [R EXCEPT !.h = reset_session_info(@)])

\* _commit_upload_session without the look at the expiry time
commit_upload_session_unchecked(X) ==
    Then(IF X.h.url # None
         THEN Then(Request(X, "POST_commit", "commit_upload_session", <<>>, <<>>,
                           SessionGone(X)),
                   LAMBDA R : [R EXCEPT !.srv.exists = TRUE,
                                        !.srv.content = R.srv.sess,
                                        !.srv.sessState = "committed"])
         ELSE X,
         LAMBDA R : [R EXCEPT !.h = reset_session_info(@)])

\* _commit_upload_session
commit_upload_session(X) ==
    IF X.h.url # None /\ is_upload_session_expired(X)
    THEN [X EXCEPT !.exc = SessionExpiredError]
    ELSE Then(IF X.h.url # None
              THEN Then(Request(X, "POST_commit", "commit_upload_session", <<>>, <<>>,
                                SessionGone(X)),
                        LAMBDA R : [R EXCEPT !.srv.exists = TRUE,
                                             !.srv.content = R.srv.sess,
                                             !.srv.sessState = "committed"])
              ELSE X,
              LAMBDA R : [R EXCEPT !.h = reset_session_info(@)])

\* the one-shot upload of _commit: buffer.seek(0), buffer.read(), PUT
one_shot(X) ==
    upload_content_at_once(
        [X EXCEPT !.h.buffer = BufReadAll(BufSeek0(X.h.buffer)).buf],
        BufReadAll(BufSeek0(X.h.buffer)).bytes)

\* append_no_write that forgets the append mode
append_no_write_never(X) == FALSE

\* append_no_write of _commit
append_no_write(X) == X.h.append_mode /\ ~X.h.write_called

\* folders above the file, the root included: self.path.split("/") has
\* Depth + 1 parts
Depth == 2

\* the prefixes of self.path the loop of _commit walks: parts[0], then one
\* more component each turn, down to the folder holding the file
Prefixes == <<"", "/a", "/a/b", "/a/b/c", "/a/b/c/d">>

DirName(i) == Prefixes[i]

\* the end of _commit that invalidates every folder dircache holds
invalidate_cached(c, i) == c.listing[i] # "absent"

\* the test of the loop: path in dircache, and no entry of dircache[path] is
\* named path + "/" + p
lacks_child(c, i) == c.listing[i] = "lacks"

\* the loop at the end of _commit, from prefix i down to the file's folder
RECURSIVE invalidate_from(_, _)
invalidate_from(c, i) ==
    IF i > Depth THEN c
    ELSE invalidate_from(IF lacks_child(c, i) THEN invalidate_cache(c, DirName(i))
                         ELSE c, i + 1)

\* the end of _commit: a folder above the file whose cached listing lacks
\* the next component of the path is invalidated
invalidate_parents(X) == [X EXCEPT !.cache = invalidate_from(@, 1)]

\* _commit
commit(X) ==
    Then(IF X.h.loc = 0 THEN Then(abort_upload_session(X), LAMBDA B : touch(B))
         ELSE IF X.h.url = None /\ ~append_no_write(X) THEN one_shot(X)
         ELSE X,
         LAMBDA A : Then(IF append_no_write(X) THEN abort_upload_session(A)
                         ELSE commit_upload_session(A),
                         LAMBDA C : invalidate_parents(C)))

\* _discard
discard(X) == abort_upload_session(X)

\* _init_write_append_mode: GET .../content, into the buffer, loc = len
init_write_append_mode(X) ==
    IF X.h.append_mode /\ ~X.h.write_called
    THEN Then(Request(X, "GET_content", "init_write_append_mode",
                      X.srv.content, <<>>, ~X.srv.exists),
              LAMBDA R : [R EXCEPT !.h.buffer = BufWrite(@, R.srv.content),
                                   !.h.loc = Len(R.srv.content)])
    ELSE X

\* ------------------------------------------------------ chunked upload
\* put_chunk that leaves the expiry time as it was
put_chunk_keeps_expiry(X, chunk) ==
    IF X.h.url = None THEN [X EXCEPT !.exc = "InvalidURL"]
    ELSE Then(Request(X, "PUT_chunk", "upload_chunk", chunk,
                      <<X.h.chunk_start, X.h.chunk_start + Len(chunk) - 1>>,
                      SessionGone(X)),
              LAMBDA R : [R EXCEPT !.srv.sess = @ \o chunk,
                                   !.h.chunk_start = @ + Len(chunk)])

\* put_chunk that advances the offset by a whole block whatever was sent
put_chunk_block_step(X, chunk) ==
    IF X.h.url = None THEN [X EXCEPT !.exc = "InvalidURL"]
    ELSE Then(Request(X, "PUT_chunk", "upload_chunk", chunk,
                      <<X.h.chunk_start, X.h.chunk_start + Len(chunk) - 1>>,
                      SessionGone(X)),
              LAMBDA R : [R EXCEPT !.srv.sess = @ \o chunk,
                                   !.h.expiry = R.now + SessionTTL,
                                   !.h.chunk_start = @ + R.h.blocksize])

\* the PUT of one chunk on the session URL, Content-Range "bytes s-e/*";
\* no request can be built on a URL that is None
put_chunk(X, chunk) ==
    IF X.h.url = None THEN [X EXCEPT !.exc = "InvalidURL"]
    ELSE Then(Request(X, "PUT_chunk", "upload_chunk", chunk,
                      <<X.h.chunk_start, X.h.chunk_start + Len(chunk) - 1>>,
                      SessionGone(X)),
              LAMBDA R : [R EXCEPT !.srv.sess = @ \o chunk,
                                   !.h.expiry = R.now + SessionTTL,
                                   !.h.chunk_start = @ + Len(chunk)])

\* chunk_to_write = self.buffer.read(self.blocksize), as [X, val]
next_chunk(X) ==
    Return([X EXCEPT !.h.buffer = BufRead(@, X.h.blocksize).buf],
           BufRead(X.h.buffer, X.h.blocksize).bytes)

\* the while loop of _upload_chunk
RECURSIVE upload_loop(_, _, _)
upload_loop(X, chunk_to_write, final) ==
    IF chunk_to_write = <<>> THEN X
    ELSE IF Len(chunk_to_write) < X.h.blocksize /\ ~final
    THEN [X EXCEPT !.h.remaining = chunk_to_write]
    ELSE Then(put_chunk(X, chunk_to_write),
              LAMBDA R : ThenVal(next_chunk(R),
                                 LAMBDA Y, c : upload_loop(Y, c, final)))

\* first_chunk with the pending tail dropped instead of prepended
first_chunk_drops_tail(X) ==
    Return([X EXCEPT !.h.buffer = BufRead(BufSeek0(@), X.h.blocksize).buf,
                     !.h.remaining = <<>>],
           BufRead(BufSeek0(X.h.buffer), X.h.blocksize).bytes)

\* first_chunk that reads a whole block behind the pending tail
first_chunk_reads_block(X) ==
    Return([X EXCEPT !.h.buffer = BufRead(BufSeek0(@), X.h.blocksize).buf,
                     !.h.remaining = <<>>],
           X.h.remaining \o BufRead(BufSeek0(X.h.buffer), X.h.blocksize).bytes)

\* the first chunk of _upload_chunk: buffer.seek(0), then the pending tail
\* plus what fills a block, as [X, val]
first_chunk(X) ==
    Return([X EXCEPT !.h.buffer = BufRead(BufSeek0(@),
                                          X.h.blocksize - Len(X.h.remaining)).buf,
                     !.h.remaining = <<>>],
           X.h.remaining \o BufRead(BufSeek0(X.h.buffer),
                                    X.h.blocksize - Len(X.h.remaining)).bytes)

\* _upload_chunk(final): the handle afterwards; it returns "not final"
upload_chunk(X, final) ==
    Then(IF X.h.autocommit /\ final /\ X.h.loc < X.h.blocksize THEN X
         ELSE ThenVal(first_chunk(X), LAMBDA Y, c : upload_loop(Y, c, final)),
         LAMBDA U : IF U.h.autocommit /\ final THEN commit(U) ELSE U)

\* _initiate_upload without the one-shot threshold
initiate_upload_always(X) ==
    create_upload_session([X EXCEPT !.h.chunk_start = 0])

\* _initiate_upload
initiate_upload(X) ==
    IF X.h.autocommit /\ X.h.loc < X.h.blocksize THEN X
    ELSE create_upload_session([X EXCEPT !.h.chunk_start = 0])

\* ------------------------------------- fsspec's AbstractBufferedFile
\* "except: self.closed = True; raise" around _initiate_upload
closed_if_raised(I) == IF Raised(I) THEN [I EXCEPT !.h.closed = TRUE] ELSE I

\* the part of flush that uploads
flush_upload(X, force) ==
    Then(IF X.h.offset = NoInt
         THEN closed_if_raised(initiate_upload([X EXCEPT !.h.offset = 0]))
         ELSE X,
         LAMBDA I :
           Then(upload_chunk(I, force),
                LAMBDA U : IF force THEN U
                           ELSE [U EXCEPT !.h.offset = @ + Len(U.h.buffer.data),
                                          !.h.buffer = BytesIO]))

\* flush(force)
flush(X, force) ==
    IF X.h.closed THEN [X EXCEPT !.exc = "ValueError"]
    ELSE IF force /\ X.h.forced THEN [X EXCEPT !.exc = "ValueError"]
    ELSE IF ~force /\ X.h.buffer.pos < X.h.blocksize THEN X
    ELSE flush_upload([X EXCEPT !.h.forced = (@ \/ force)], force)

\* the base class's write(data)
buffered_write(X, data) ==
    IF X.h.closed \/ X.h.forced THEN [X EXCEPT !.exc = "ValueError"]
    ELSE IF X.h.buffer.pos + Len(data) >= X.h.blocksize
    THEN flush([X EXCEPT !.h.buffer = BufWrite(@, data), !.h.loc = @ + Len(data)],
               FALSE)
    ELSE [X EXCEPT !.h.buffer = BufWrite(@, data), !.h.loc = @ + Len(data)]

\* write(data) where the cooperative handle does not set _write_called
write_async_forgets_flag(X, data) ==
    Then(IF ~X.h.write_called THEN init_write_append_mode(X) ELSE X,
         LAMBDA H : buffered_write([H EXCEPT !.h.write_called =
                                               (H.h.flavor = "sync")], data))

\* write(data): the mixin's write, then the base class's
write(X, data) ==
    Then(IF ~X.h.write_called THEN init_write_append_mode(X) ELSE X,
         LAMBDA H : buffered_write([H EXCEPT !.h.write_called = TRUE], data))

\* close(): the blocking flavour marks the handle closed in a finally clause,
\* the cooperative one only when the flush returned
mark_closed(F, flavor) ==
    IF Raised(F) /\ flavor = "async" THEN F ELSE [F EXCEPT !.h.closed = TRUE]

\* close() after its flush returned: fs.invalidate_cache(path) and
\* fs.invalidate_cache(fs._parent(path))
close_invalidate(F) ==
    IF Raised(F) THEN F
    ELSE [F EXCEPT !.cache = invalidate_cache(invalidate_cache(@, "file"),
                                              DirName(Depth))]

close(X) ==
    IF X.h.closed THEN X
    ELSE mark_closed(close_invalidate(IF ~X.h.forced THEN flush(X, TRUE) ELSE X),
                     X.h.flavor)

\* ------------------------------------------------------------ the state
\* h       the handle           srv    the remote store
\* srv0    the remote store as it was when the handle was opened
\* log     the requests sent    now    the clock
\* err     the exception the last handler raised (NoExc when it returned)
\* calls   how many explicit flush / commit / discard calls took effect
\* stream  the bytes the handle took in, in order: hydrated content and the
\*         data of the write calls (history, never read by a handler)

\* the handle as _init__mixin leaves it, opened by fs._open / fs.open_async
\* on a store whose file has `size` bytes (or does not exist)
NewHandle(flavor, mode, autocommit, blocksize, exists, size) ==
    reset_session_info(
      [flavor |-> flavor, mode |-> mode, autocommit |-> autocommit,
       blocksize |-> blocksize,
       loc |-> IF mode = "ab" THEN size ELSE 0,
       buffer |-> BytesIO, offset |-> NoInt, forced |-> FALSE, closed |-> FALSE,
       item_id |-> IF exists THEN FileId ELSE None,
       kw_item_id |-> IF exists THEN FileId ELSE None,
       append_mode |-> mode = "ab",
       url |-> None, expiry |-> NoInt, chunk_start |-> 0, remaining |-> <<>>,
       write_called |-> FALSE])

\* fs.dircache and the calls of fs.invalidate_cache made so far.  listing[i]
\* says what dircache holds for the i-th prefix of the path: no entry
\* ("absent"), a listing without the next component of the path ("lacks") or
\* a listing with it ("has").  Nothing in the filesystem fills dircache, so
\* no listing is held unless the caller stored one.
Listings == {"absent", "lacks", "has"}

NoListing == [listing |-> [i \in 1..Depth |-> "absent"], inval |-> <<>>]

\* no call on the filesystem object is under way
Idle == [op |-> "idle"]

Init ==
    \E flavor \in {"sync", "async"}, mode \in {"wb", "ab"}, autocommit \in BOOLEAN,
       blocksize \in BlockSizes, exists \in BOOLEAN, parent \in BOOLEAN,
       size \in 0..MaxExisting :
        /\ mode = "ab" => exists
        /\ exists => parent
        /\ ~exists => size = 0
        /\ (mode = "wb" /\ exists) => size = MaxExisting
        /\ h = NewHandle(flavor, mode, autocommit, blocksize, exists, size)
        /\ srv = [exists |-> exists, content |-> Existing(size), parent |-> parent,
                  sess |-> <<>>, sessState |-> "none"]
        /\ srv0 = srv
        /\ log = <<>>
        /\ now = 0
        /\ err = NoExc
        /\ calls = 0
        /\ stream = <<>>
        /\ fs = Idle
        /\ cache = NoListing

\* the execution record a handler starts from; f chooses the request that fails
Start(f) ==
    [h |-> h, srv |-> srv, log |-> log, now |-> now, exc |-> NoExc, fail |-> f,
     cache |-> cache]

\* requests that failed so far
Failures == Cardinality({i \in DOMAIN log : log[i].status = "error"})

FailChoices(maxFail) == IF Failures < maxFail THEN 0..MaxFailAt ELSE {0}

\* the state a handler leaves
Finish(R) ==
    /\ R.fail = 0
    /\ h' = R.h
    /\ srv' = R.srv
    /\ log' = R.log
    /\ now' = now
    /\ err' = R.exc
    /\ srv0' = srv0
    /\ fs' = fs
    /\ cache' = R.cache

\* an explicit call counts when it changed the handle, the store, the log or
\* the cache
Counted(R) ==
    IF <<R.h, R.srv, R.log, R.cache>> # <<h, srv, log, cache>> THEN calls + 1
    ELSE calls

\* bytes handed to write() so far
Written == Cardinality({i \in DOMAIN stream : stream[i] > 0})

\* most bytes a handle of this block size is handed
MaxWritten(maxBlocks) == maxBlocks * h.blocksize + 1

\* ---------------------------------------------------------- the actions
\* f.write(data), data of n bytes.  On a closed or force-flushed handle the
\* call raises ValueError whatever the data, so it is taken with n = 0 there.
Write(maxFail, maxCalls, maxBlocks) ==
    \E n \in 0..MaxWritten(maxBlocks), f \in FailChoices(maxFail) :
        /\ Written + n <= MaxWritten(maxBlocks)
        /\ (h.closed \/ h.forced) => n = 0 /\ calls < maxCalls
        /\ LET data == Data(Written, n)
               R == write(Start(f), data)
               hydrated == /\ h.append_mode /\ ~h.write_called
                           /\ Len(R.log) > Len(log)
                           /\ R.log[Len(log) + 1].status = "ok"
               taken == ~Raised(init_write_append_mode(Start(f)))
                        /\ ~h.closed /\ ~h.forced
           IN /\ Finish(R)
              /\ stream' = (IF hydrated THEN stream \o srv.content ELSE stream)
                           \o (IF taken THEN data ELSE <<>>)
              /\ calls' = IF h.closed \/ h.forced THEN Counted(R) ELSE calls

\* f.flush(force)
Flush(maxFail, maxCalls) ==
    \E force \in BOOLEAN, f \in FailChoices(maxFail) :
        /\ calls < maxCalls
        /\ LET R == flush(Start(f), force)
           IN Finish(R) /\ calls' = Counted(R)
        /\ UNCHANGED stream

\* f.close()
Close(maxFail) ==
    \E f \in FailChoices(maxFail) :
        /\ Finish(close(Start(f)))
        /\ UNCHANGED <<calls, stream>>

\* f.commit()
Commit(maxFail, maxCalls) ==
    \E f \in FailChoices(maxFail) :
        /\ calls < maxCalls
        /\ LET R == commit(Start(f))
           IN Finish(R) /\ calls' = Counted(R)
        /\ UNCHANGED stream

\* f.discard()
Discard(maxFail, maxCalls) ==
    \E f \in FailChoices(maxFail) :
        /\ calls < maxCalls
        /\ LET R == discard(Start(f))
           IN Finish(R) /\ calls' = Counted(R)
        /\ UNCHANGED stream

\* the clock advances; it only matters while the handle holds a session that
\* has not expired yet
Tick ==
    /\ now < MaxTime
    /\ h.url # None
    /\ now <= h.expiry
    /\ now' = now + 1
    /\ UNCHANGED <<h, srv, srv0, log, err, calls, stream, fs, cache>>

\* Any calls in any order, requests may fail; handles of the smallest block
\* size.
SmallestBlock == CHOOSE b \in BlockSizes : \A c \in BlockSizes : b <= c

InitAny == Init /\ h.blocksize = SmallestBlock

Next ==
    \/ Write(MaxFailures, MaxCalls, AnyBlocks)
    \/ Flush(MaxFailures, MaxCalls)
    \/ Close(MaxFailures)
    \/ Commit(MaxFailures, MaxCalls)
    \/ Discard(MaxFailures, MaxCalls)
    \/ Tick

Spec == InitAny /\ [][Next]_vars

\* The life cycle the handle is made for: write calls, then close, commit and
\* discard; no write follows them and every request is answered.
Ending == h.closed \/ h.forced \/ calls > 0

NextLife ==
    \/ ~Ending /\ Write(0, 0, MaxBlocks)
    \/ Close(0)
    \/ Commit(0, LifeCalls)
    \/ Discard(0, LifeCalls)
    \/ Tick

SpecLife == Init /\ [][NextLife]_vars

\* ------------------------------------------------------------ the claims
\* what the log holds
Chunks == SelectSeq(log, LAMBDA e : e.kind = "PUT_chunk")

OneShots == SelectSeq(log, LAMBDA e : e.kind = "PUT_content"
                                      /\ e.by = "upload_content_at_once")

Sent(kind) == {i \in DOMAIN log : log[i].kind = kind}

\* every request was answered, and with success; the look-up of a file that
\* does not exist yet answers 404 and is no failure
AllSucceeded ==
    \A i \in DOMAIN log :
        \/ log[i].status = "ok"
        \/ log[i].kind = "GET_id" /\ log[i].by = "file" /\ log[i].status = "404"

RECURSIVE ConcatData(_)
ConcatData(es) == IF es = <<>> THEN <<>> ELSE es[1].data \o ConcatData(Tail(es))

RECURSIVE SumLen(_)
SumLen(es) == IF es = <<>> THEN 0 ELSE Len(es[1].data) + SumLen(Tail(es))

Lengths(es) == [i \in DOMAIN es |-> Len(es[i].data)]

\* the bytes sent to the store: the body of the one-shot upload, else the
\* session's chunks in transmission order
SentBytes == IF OneShots # <<>> THEN OneShots[1].data ELSE ConcatData(Chunks)

\* the handle was written to and closed, nothing else was called
WrittenAndClosed == h.closed /\ calls = 0 /\ AllSucceeded

\* C1: once a write or append handle was written to and closed with every
\* request succeeding, the bytes sent to the store are the handle's byte
\* stream in order (hydrated content, then the written bytes): nothing lost,
\* duplicated or reordered, pending tails included.
C1_ByteStreamPreserved ==
    WrittenAndClosed => SentBytes = stream /\ Len(OneShots) <= 1

\* an append handle whose stream went out in three chunks or more, the last a
\* short one: a pending tail was held between two flushes
C1_Witness ==
    /\ WrittenAndClosed /\ h.append_mode
    /\ srv0.content # <<>> /\ Written > 0
    /\ Len(Chunks) >= 3
    /\ Len(Chunks[Len(Chunks)].data) < h.blocksize
    /\ SentBytes = stream

\* C2: every chunk request but the last one sent carries exactly blocksize
\* bytes; the last carries at most that, and at least one.
C2_OnlyLastChunkShort ==
    \A i \in DOMAIN Chunks :
        /\ i < Len(Chunks) => Len(Chunks[i].data) = h.blocksize
        /\ Len(Chunks[i].data) \in 1..h.blocksize

C2_Witness ==
    /\ h.closed /\ Len(Chunks) >= 3
    /\ Len(Chunks[Len(Chunks)].data) < h.blocksize
    /\ Len(Chunks[1].data) = h.blocksize

\* C3: the k-th chunk sent carries Content-Range s-e with s the sum of the
\* lengths of the chunks before it and e = s + length - 1; the session offset
\* the handle holds is the sum of the lengths of all chunks sent; 16 units
\* with block size 5 go out as chunks of 5, 5, 5 and 1.
C3_RangesContiguous ==
    /\ \A i \in DOMAIN Chunks :
          /\ Chunks[i].range[1] = SumLen(SubSeq(Chunks, 1, i - 1))
          /\ Chunks[i].range[2] = Chunks[i].range[1] + Len(Chunks[i].data) - 1
    /\ h.url # None => h.chunk_start = SumLen(Chunks)
    /\ (WrittenAndClosed /\ h.blocksize = 5 /\ Len(stream) = 16)
          => Lengths(Chunks) = <<5, 5, 5, 1>>

C3_Witness ==
    /\ WrittenAndClosed /\ h.blocksize = 5
    /\ Lengths(Chunks) = <<5, 5, 5, 1>>
    /\ Chunks[4].range = <<15, 15>>
    /\ h.url # None /\ h.chunk_start = 16

\* the content of the handle at close is not empty and below the block size
SmallContent == WrittenAndClosed /\ Len(stream) \in 1..(h.blocksize - 1)

OneShotOnly ==
    /\ Sent("POST_create") = {}
    /\ Cardinality(Sent("PUT_content")) = 1
    /\ Len(OneShots) = 1

\* C4 as claimed: with autocommit on or off, content below the block size
\* at close time means no session is ever created and the content goes out
\* in exactly one content-replace request.
C4_OneShotAnyAutocommit == SmallContent => OneShotOnly

\* C4 as amended: the same for handles with autocommit on.
C4_OneShotWhenAutocommit == (SmallContent /\ h.autocommit) => OneShotOnly

C4_Witness ==
    /\ SmallContent /\ h.autocommit /\ OneShotOnly
    /\ OneShots[1].data = stream /\ srv.content = stream

\* no write call was made on the handle: the first write call of an append
\* handle fetches the content
NoWriteCall == Sent("GET_content") = {} /\ stream = <<>>

\* C5: an append handle that is closed or committed without a write call
\* leaves the remote file as it was, and its session, if one was opened, is
\* never committed; once such a handle is closed with autocommit it holds no
\* session.
C5_AppendNoWriteUntouched ==
    (h.append_mode /\ NoWriteCall) =>
        /\ srv.exists /\ srv.content = srv0.content
        /\ Sent("POST_commit") = {} /\ srv.sessState # "committed"
        /\ Chunks = <<>> /\ OneShots = <<>>
        /\ (h.closed /\ h.autocommit) => h.url = None

\* an append handle on content of a block or more, closed without a write:
\* the session it opened was deleted
C5_Witness ==
    /\ h.append_mode /\ NoWriteCall /\ h.closed
    /\ Len(srv0.content) >= h.blocksize
    /\ \E i \in Sent("DELETE_session") : log[i].status = "ok"
    /\ h.url = None /\ srv.content = srv0.content

\* a step of commit() / of discard() with every request succeeding
CommitStep == Commit(0, LifeCalls)

DiscardStep == Discard(0, LifeCalls)

\* C6 as claimed: the existing content is fetched once per handle, at the
\* first write call and never again on a later one.
C6_HydratedOnce ==
    Cardinality({i \in Sent("GET_content") : log[i].status = "ok"}) <= 1

\* the handle holds a session whose expiry time is past
SessionExpired == h.url # None /\ now > h.expiry

\* commit() failed on the expired session and touched nothing
ExpiredRefused ==
    /\ err' = SessionExpiredError
    /\ log' = log /\ srv' = srv
    /\ h'.url = h.url

FirstCommitDone ==
    /\ err = NoExc /\ h.url = None /\ log # <<>>
    /\ log[Len(log)].status = "ok"
    /\ \/ log[Len(log)].kind = "POST_commit"
       \/ log[Len(log)].kind = "PUT_content"
          /\ log[Len(log)].by = "upload_content_at_once"

\* C8 as claimed: commit() called again after a commit that succeeded, one
\* shot or chunked, sends nothing and leaves the remote content as the first
\* commit made it.
C8_SecondCommitNoOp ==
    [][(FirstCommitDone /\ CommitStep) => (log' = log /\ srv' = srv)]_vars

\* C9 as claimed: after discard() the handle holds no session and no
\* buffered or pending-tail bytes, so that nothing written before the
\* discard is left for a later close, flush or commit to send.
C9_DiscardDropsBytes ==
    [][DiscardStep => /\ h'.url = None
                      /\ h'.buffer.data = <<>>
                      /\ h'.remaining = <<>>]_vars

\* C10 as claimed: whatever the answer to the abort's delete request, the
\* abort leaves the handle without session: URL, expiry, chunk offset and
\* pending tail cleared.
C10_AbortAlwaysClears ==
    (log # <<>> /\ log[Len(log)].kind = "DELETE_session")
        => /\ h.url = None /\ h.expiry = NoInt
           /\ h.chunk_start = 0 /\ h.remaining = <<>>

\* the requests of kind k a step added to the log
NewSent(kind) == {i \in DOMAIN log' : i > Len(log) /\ log'[i].kind = kind}

NoSession(hh) ==
    /\ hh.url = None /\ hh.expiry = NoInt
    /\ hh.chunk_start = 0 /\ hh.remaining = <<>>

\* C11: discard() (an abort) on a handle whose session has expired sends no
\* delete request, raises nothing and leaves the handle without session; a
\* delete request is sent only for a session that exists and has not
\* expired.
C11_ExpiredAbortIsQuiet ==
    [][DiscardStep =>
        /\ SessionExpired => /\ log' = log /\ err' = NoExc
                             /\ NoSession(h')
        /\ NewSent("DELETE_session") # {} => h.url # None /\ now <= h.expiry
      ]_vars

\* the handle dropped a session that is still open on the server, without
\* a delete request and without error
C11_Witness ==
    /\ NoSession(h) /\ srv.sessState = "open"
    /\ Sent("DELETE_session") = {} /\ err = NoExc
    /\ now > SessionTTL

\* C12: commit() on a write handle to which nothing was written (cursor 0,
\* empty buffer) sends no chunk and no session commit; it aborts the session
\* the handle holds and touches the item, which exists afterwards.
C12_EmptyCommitTouches ==
    [][(h.mode = "wb" /\ h.loc = 0 /\ h.buffer.data = <<>> /\ CommitStep) =>
        /\ NewSent("PUT_chunk") = {} /\ NewSent("POST_commit") = {}
        /\ (h.url # None /\ now <= h.expiry) => NewSent("DELETE_session") # {}
        /\ err' = NoExc => /\ srv'.exists /\ srv'.content = <<>>
                            /\ NoSession(h')
                            /\ log'[Len(log')].kind = "PUT_content"
                            /\ log'[Len(log')].by = "touch"
      ]_vars

\* an empty write handle closed without autocommit and then committed: the
\* session was deleted and the item, absent before, was created empty
C12_Witness ==
    /\ h.mode = "wb" /\ h.loc = 0 /\ h.closed /\ ~srv0.exists
    /\ srv.exists /\ srv.content = <<>> /\ srv.sessState = "deleted"
    /\ log # <<>> /\ log[Len(log)].by = "touch" /\ log[Len(log)].status = "ok"
    /\ NoSession(h) /\ err = NoExc

\* --------------------------------------------------- the retrying call
\* _http_call_with_retry(func, retries=...) under wrap_http_not_found_exceptions.
\* func answers its i-th call with the i-th entry of a script: an HTTP status,
\* or NetworkError for one of HTTPX_RETRYABLE_ERRORS.
MaxScript == 3
MaxRetries == 3

HTTPX_RETRYABLE_HTTP_STATUS_CODES == {500, 502, 503, 504}

NetworkError == 0

Answers == {200, 400, 404, NetworkError} \cup HTTPX_RETRYABLE_HTTP_STATUS_CODES

RECURSIVE Pow(_, _)
Pow(b, e) == IF e = 0 THEN 1 ELSE b * Pow(b, e - 1)

\* durations are counted in units of 10^-BackoffDigits seconds
BackoffDigits == 7

\* min(1.7**i * 0.1, 15)
Backoff(i) ==
    Min(Pow(17, i) * Pow(10, BackoffDigits - 1 - i), 15 * Pow(10, BackoffDigits))

BackoffCap == 15 * Pow(10, BackoffDigits)

\* the handle of the model stays as opened while the filesystem is called
HandleIdle ==
    /\ h = NewHandle("sync", "wb", TRUE, SmallestBlock, FALSE, 0)
    /\ srv = [exists |-> FALSE, content |-> <<>>, parent |-> TRUE,
              sess |-> <<>>, sessState |-> "none"]
    /\ srv0 = srv /\ log = <<>> /\ now = 0 /\ err = NoExc
    /\ calls = 0 /\ stream = <<>>
    /\ cache = NoListing

HandleUnchanged == UNCHANGED <<h, srv, srv0, log, now, err, calls, stream, cache>>

\* retries = 1, the first statement of the loop's set-up
retries_in_force(retries) == 1

\* the answer to the i-th call of func (the last one repeats)
Answer(script, i) == script[Min(i, Len(script))]

\* response.raise_for_status() that lets the 4xx pass
raise_for_status_5xx(status) == status >= 500

\* response.raise_for_status(): HTTPStatusError unless the status is 2xx
raise_for_status(status) == status < 200 \/ status >= 300

\* one round of the loop `for i in range(retries)` and those after it; c is
\* the call's record so far
RECURSIVE retry_loop(_, _, _, _)
retry_loop(i, script, retries, c) ==
    IF i >= retries THEN c
    ELSE LET a == Answer(script, i + 1)
             d == [c EXCEPT !.attempts = @ + 1, !.status = a]
             again == retry_loop(i + 1, script, retries,
                                 [d EXCEPT !.sleeps = Append(@, Backoff(i))])
         IN IF a = NetworkError
            THEN IF i = retries - 1 THEN [d EXCEPT !.exc = "NetworkError"]
                 ELSE again
            ELSE IF raise_for_status(a)
            THEN IF a \in HTTPX_RETRYABLE_HTTP_STATUS_CODES /\ i # retries - 1
                 THEN again
                 ELSE [d EXCEPT !.exc = "HTTPStatusError"]
            ELSE [d EXCEPT !.returned = TRUE]

\* wrap_http_not_found_exceptions
wrap_http_not_found_exceptions(c) ==
    IF c.exc = "HTTPStatusError" /\ c.status = 404
    THEN [c EXCEPT !.exc = "FileNotFoundError"]
    ELSE c

http_call_with_retry(script, retries) ==
    wrap_http_not_found_exceptions(
        retry_loop(0, script, retries_in_force(retries),
                   [attempts |-> 0, sleeps |-> <<>>, status |-> NetworkError,
                    exc |-> NoExc, returned |-> FALSE]))

Scripts == UNION {[1..n -> Answers] : n \in 1..MaxScript}

InitCall ==
    /\ HandleIdle
    /\ \E script \in Scripts, retries \in 1..MaxRetries :
          fs = [op |-> "call", script |-> script, retries |-> retries]

\* fs._call_msgraph(...): the call runs to its end
CallMsgraph ==
    /\ fs.op = "call"
    /\ fs' = [op |-> "called", script |-> fs.script, retries |-> fs.retries,
              out |-> http_call_with_retry(fs.script, fs.retries)]
    /\ HandleUnchanged

SpecCall == InitCall /\ [][CallMsgraph]_vars

Transient(a) == a = NetworkError \/ a \in HTTPX_RETRYABLE_HTTP_STATUS_CODES

\* the script fails transiently K times and then succeeds
FailsThenSucceeds(script, K) ==
    /\ Len(script) = K + 1 /\ script[K + 1] = 200
    /\ \A i \in 1..K : Transient(script[i])

\* C13 as claimed: a request that fails transiently K times and then
\* succeeds, under a layer set up for K+1 attempts or more, returns the
\* success after K+1 attempts and K sleeps, non-decreasing and within the cap.
C13_RetriesUntilSuccess ==
    fs.op = "called" =>
        \A K \in 0..MaxScript :
            (FailsThenSucceeds(fs.script, K) /\ fs.retries >= K + 1) =>
                /\ fs.out.returned /\ fs.out.exc = NoExc
                /\ fs.out.attempts = K + 1 /\ Len(fs.out.sleeps) = K
                /\ \A i \in 1..K : fs.out.sleeps[i] <= BackoffCap
                /\ \A i \in 1..(K - 1) : fs.out.sleeps[i] <= fs.out.sleeps[i + 1]

\* a status that is neither a success nor one to retry
Terminal(a) ==
    /\ a # NetworkError /\ a \notin 200..299
    /\ a \notin {500, 502, 503, 504}

\* C14: a request answered with 404, or with another status that is neither
\* 2xx nor one of 500, 502, 503, 504, is attempted once: no sleep, no second
\* attempt, and the call raises.
C14_TerminalNeverRetried ==
    (fs.op = "called" /\ Terminal(fs.script[1])) =>
        /\ fs.out.attempts = 1 /\ fs.out.sleeps = <<>>
        /\ ~fs.out.returned /\ fs.out.exc # NoExc
        /\ fs.out.status = fs.script[1]

\* a 404 answered to a layer set up for three attempts, whose script would
\* succeed on a second one
C14_Witness ==
    /\ fs.op = "called" /\ fs.retries = 3
    /\ Len(fs.script) >= 2 /\ fs.script[1] = 404 /\ fs.script[2] = 200
    /\ fs.out.attempts = 1 /\ fs.out.exc = "FileNotFoundError"

\* ------------------------------------------------------------ the copy
\* _msggraph_item_copy(path1, path2, wait_completion).  The three requests it
\* sends through _call_msgraph are answered by a[1..3]; the status location
\* answers the polls with the entries of a script.
MaxPolls == 3

CallAnswers == {200, 404, 500}

PollAnswers == {"inProgress", "notStarted", "completed", "failed", "404"}

StatusUrl == "status-url"

CopyFailed == "RuntimeError: Copy operation failed"

\* the record of an operation of the filesystem object
OpStart(retries) ==
    [requests |-> <<>>, exc |-> NoExc, value |-> None, polls |-> 0,
     delays |-> <<>>, hung |-> FALSE, retries |-> retries, inval |-> <<>>,
     body |-> <<>>]

\* a request sent through fs._call_msgraph and answered with a status
fs_request(c, kind, answer) ==
    [c EXCEPT !.requests = Append(@, [kind |-> kind, status |-> answer,
                                      conflict |-> conflict_behavior(kind)]),
              !.exc = http_call_with_retry(<<answer>>, c.retries).exc]

\* _get_copy_status: a plain httpx GET, no raise_for_status; the status
\* field of the body, None when the body has none
get_copy_status(answer) == IF answer = "404" THEN None ELSE answer

polled(c, answer) ==
    [c EXCEPT !.polls = @ + 1,
              !.requests = Append(@, [kind |-> "GET_status",
                                      status |-> IF answer = "404" THEN 404 ELSE 200])]

RECURSIVE poll_loop(_, _, _)
\* the polling loop that sleeps before it looks at the status
poll_loop_sleep_first(i, script, c) ==
    IF i > Len(script) THEN [c EXCEPT !.hung = TRUE]
    ELSE IF get_copy_status(script[i]) = "completed"
    THEN [polled(c, script[i]) EXCEPT !.delays = Append(@, 1)]
    ELSE IF get_copy_status(script[i]) = "failed"
    THEN [polled(c, script[i]) EXCEPT !.exc = CopyFailed, !.delays = Append(@, 1)]
    ELSE poll_loop(i + 1, script,
                   [polled(c, script[i]) EXCEPT !.delays = Append(@, 1)])

\* while True: status = await self._get_copy_status(status_url) ...
\* a script that ends without a terminal status leaves the loop polling
poll_loop(i, script, c) ==
    IF i > Len(script) THEN [c EXCEPT !.hung = TRUE]
    ELSE IF get_copy_status(script[i]) = "completed" THEN polled(c, script[i])
    ELSE IF get_copy_status(script[i]) = "failed"
    THEN [polled(c, script[i]) EXCEPT !.exc = CopyFailed]
    ELSE poll_loop(i + 1, script,
                   [polled(c, script[i]) EXCEPT !.delays = Append(@, 1)])

msggraph_item_copy(a, wait_completion, script, retries) ==
    Then(fs_request(OpStart(retries), "GET_id", a[1]), LAMBDA c1 :
      Then(fs_request(c1, "GET_reference", a[2]), LAMBDA c2 :
        Then(fs_request(c2, "POST_copy", a[3]), LAMBDA c3 :
          IF ~wait_completion THEN [c3 EXCEPT !.value = StatusUrl]
          ELSE poll_loop(1, script, c3))))

PollScripts == UNION {[1..n -> PollAnswers] : n \in 1..MaxPolls}

InitCopy ==
    /\ HandleIdle
    /\ \E a \in [1..3 -> CallAnswers], wait \in BOOLEAN, script \in PollScripts,
          retries \in 1..MaxRetries :
          fs = [op |-> "copy", a |-> a, wait |-> wait, script |-> script,
                retries |-> retries]

\* fs._msggraph_item_copy(path1, path2, wait_completion)
ItemCopy ==
    /\ fs.op = "copy"
    /\ fs' = [op |-> "copied", a |-> fs.a, wait |-> fs.wait, script |-> fs.script,
              out |-> msggraph_item_copy(fs.a, fs.wait, fs.script, fs.retries)]
    /\ HandleUnchanged

SpecCopy == InitCopy /\ [][ItemCopy]_vars

\* the copy was accepted: its three requests were answered 200
Accepted == fs.op = "copied" /\ \A i \in 1..3 : fs.a[i] = 200

\* the script answers inProgress n times and then t
ProgressThen(script, n, t) ==
    /\ Len(script) > n /\ script[n + 1] = t
    /\ \A i \in 1..n : script[i] = "inProgress"

\* C15 as claimed: a 404 answered to any request of an operation reaches
\* the caller as FileNotFoundError; here for the copy: its look-up, its
\* reference request, the copy request and the polls of the status location.
C15_NotFoundEverywhere ==
    fs.op = "copied" =>
        ((\E i \in DOMAIN fs.out.requests : fs.out.requests[i].status = 404)
            => fs.out.exc = "FileNotFoundError")

\* C19: copy with wait polls until a terminal status: inProgress n times
\* and then completed returns after n+1 polls and n delays of one second;
\* a poll answered failed raises the copy failure with no further poll or
\* delay; without wait the status URL is returned and nothing is polled.
C19_CopyPolling ==
    Accepted =>
        /\ \A n \in 0..MaxPolls :
              (fs.wait /\ ProgressThen(fs.script, n, "completed")) =>
                  /\ fs.out.exc = NoExc /\ ~fs.out.hung
                  /\ fs.out.polls = n + 1
                  /\ fs.out.delays = [i \in 1..n |-> 1]
        /\ \A n \in 0..MaxPolls :
              (fs.wait /\ ProgressThen(fs.script, n, "failed")) =>
                  /\ fs.out.exc = CopyFailed
                  /\ fs.out.polls = n + 1
                  /\ Len(fs.out.delays) = n
        /\ ~fs.wait => /\ fs.out.value = StatusUrl /\ fs.out.exc = NoExc
                        /\ fs.out.polls = 0 /\ fs.out.delays = <<>>

\* inProgress twice, then completed: three polls, two delays
C19_Witness ==
    /\ Accepted /\ fs.wait
    /\ fs.script = <<"inProgress", "inProgress", "completed">>
    /\ fs.out.polls = 3 /\ fs.out.delays = <<1, 1>> /\ fs.out.exc = NoExc

\* ------------------------------------- operations of the filesystem object
\* The i-th request an operation sends through _call_msgraph is answered
\* with a[i].
MaxRequests == 5

OpAnswers == {200, 404, 409, 500}

\* retries = 5, the class attribute
DefaultRetries == 5

\* the end of _get_item_id that takes any failure for a missing item
lookup_answer_any(r, throw_on_missing) ==
    IF Raised(r) /\ ~throw_on_missing
    THEN [r EXCEPT !.exc = NoExc, !.value = None]
    ELSE IF Raised(r) THEN r ELSE [r EXCEPT !.value = "id"]

\* the end of _get_item_id: the id, or None for a 404 unless throw_on_missing
lookup_answer(r, throw_on_missing) ==
    IF r.exc = "FileNotFoundError" /\ ~throw_on_missing
    THEN [r EXCEPT !.exc = NoExc, !.value = None]
    ELSE IF Raised(r) THEN r ELSE [r EXCEPT !.value = "id"]

\* fs._get_item_id(path, throw_on_missing)
op_get_item_id(c, answer, throw_on_missing) ==
    lookup_answer(fs_request(c, "GET_id", answer), throw_on_missing)

\* the end of _isfile / _isdir: False for a 404
probe_answer(r, found) ==
    IF r.exc = "FileNotFoundError" THEN [r EXCEPT !.exc = NoExc, !.value = "False"]
    ELSE IF Raised(r) THEN r
    ELSE [r EXCEPT !.value = IF found THEN "True" ELSE "False"]

\* fs._isfile(path), fs._isdir(path)
is_file(c, answer, found) == probe_answer(fs_request(c, "GET_probe", answer), found)

\* _ls, "maybe the path is a file": try _info, except FileNotFoundError: pass
ls_probe(r, isfile) ==
    IF r.exc = "FileNotFoundError" THEN [r EXCEPT !.exc = NoExc, !.value = "empty"]
    ELSE IF Raised(r) THEN r
    ELSE [r EXCEPT !.value = IF isfile THEN "items" ELSE "empty"]

\* fs._ls(path): the children; when there are none, the item itself if it is
\* a file
ls(c, a, items, isfile) ==
    Then(fs_request(c, "GET_children", a[1]), LAMBDA c1 :
      IF items THEN [c1 EXCEPT !.value = "items"]
      ELSE ls_probe(fs_request(c1, "GET_info", a[2]), isfile))

\* _mkdir(parent, create_parents=True) for a parent that was not found; the
\* folder above it is found
mkdir_parent(c, a) ==
    Then(op_get_item_id(c, a[2], FALSE), LAMBDA d1 :
      Then(fs_request(d1, "POST_children", a[3]), LAMBDA d2 :
        op_get_item_id(d2, a[4], FALSE)))

\* fs._mkdir(path, create_parents=True)
mkdir(c, a) ==
    Then(op_get_item_id(c, a[1], FALSE), LAMBDA c1 :
      Then(IF c1.value = None THEN mkdir_parent(c1, a) ELSE c1, LAMBDA c2 :
        Then(fs_request(c2, "POST_children", a[5]), LAMBDA c3 :
          [c3 EXCEPT !.value = "id"])))

LastStatus(r) == r.requests[Len(r.requests)].status

\* _makedirs: except HTTPStatusError, 409
makedirs_except(r, exist_ok) ==
    IF r.exc = "HTTPStatusError" /\ LastStatus(r) = 409
    THEN IF exist_ok THEN [r EXCEPT !.exc = NoExc]
         ELSE [r EXCEPT !.exc = "FileExistsError"]
    ELSE r

\* fs._makedirs(path, exist_ok)
makedirs(c, a, exist_ok) == makedirs_except(mkdir(c, a), exist_ok)

\* fs.__delete_item(path, item_id, use_recycle_bin=...)
delete_item(c, a, given, use_recycle_bin) ==
    Then(IF given THEN c ELSE op_get_item_id(c, a[1], TRUE), LAMBDA c1 :
      Then(fs_request(c1, IF use_recycle_bin THEN "DELETE_item"
                          ELSE "POST_permanentDelete", a[2]),
           LAMBDA c2 : invalidate_cache(c2, "file")))

\* fs._mv(path1, path2)
mv(c, a) ==
    Then(op_get_item_id(c, a[1], TRUE), LAMBDA c1 :
      Then(op_get_item_id(c1, a[2], FALSE), LAMBDA c2 :
        Then(fs_request(c2, "GET_reference", a[3]), LAMBDA c3 :
          Then(fs_request(c3, "PATCH_item", a[4]), LAMBDA c4 :
            invalidate_cache(c4, "file")))))

\* the answers to the requests of an operation that sends at most n of them
AnswersFor(n) ==
    {a \in [1..MaxRequests -> OpAnswers] : \A i \in (n + 1)..MaxRequests : a[i] = 200}

OpInputs ==
    {[op |-> o, a |-> a, flag |-> f, flag2 |-> FALSE] :
        o \in {"get_item_id", "isfile"}, a \in AnswersFor(1), f \in BOOLEAN}
    \cup {[op |-> o, a |-> a, flag |-> f, flag2 |-> g] :
        o \in {"ls", "delete"}, a \in AnswersFor(2), f \in BOOLEAN, g \in BOOLEAN}
    \cup {[op |-> "makedirs", a |-> a, flag |-> f, flag2 |-> FALSE] :
        a \in {b \in AnswersFor(5) : b[2] # 404}, f \in BOOLEAN}
    \cup {[op |-> "mv", a |-> a, flag |-> FALSE, flag2 |-> FALSE] :
        a \in AnswersFor(4)}

InitOps ==
    /\ HandleIdle
    /\ fs \in OpInputs

\* the operation returned or raised
Done(out) ==
    /\ fs' = [op |-> "done", was |-> fs, out |-> out]
    /\ cache' = [cache EXCEPT !.inval = @ \o out.inval]
    /\ UNCHANGED <<h, srv, srv0, log, now, err, calls, stream>>

GetItemId ==
    /\ fs.op = "get_item_id"
    /\ Done(op_get_item_id(OpStart(DefaultRetries), fs.a[1], fs.flag))

Ls ==
    /\ fs.op = "ls"
    /\ Done(ls(OpStart(DefaultRetries), fs.a, fs.flag, fs.flag2))

Makedirs ==
    /\ fs.op = "makedirs"
    /\ Done(makedirs(OpStart(DefaultRetries), fs.a, fs.flag))

DeleteItem ==
    /\ fs.op = "delete"
    /\ Done(delete_item(OpStart(DefaultRetries), fs.a, fs.flag, fs.flag2))

Mv ==
    /\ fs.op = "mv"
    /\ Done(mv(OpStart(DefaultRetries), fs.a))

IsFile ==
    /\ fs.op = "isfile"
    /\ Done(is_file(OpStart(DefaultRetries), fs.a[1], fs.flag))

NextOps == GetItemId \/ Ls \/ Makedirs \/ DeleteItem \/ Mv \/ IsFile \/ ItemCopy

SpecOps == (InitOps \/ InitCopy) /\ [][NextOps]_vars

\* the operation is over
Over == fs.op \in {"done", "copied"}

\* a request of the operation that was not answered with success
FailedRequests(out) ==
    {i \in DOMAIN out.requests : out.requests[i].status \notin 200..299}

\* the operation absorbed the failure of its i-th request
Absorbed(i) == fs.out.exc = NoExc /\ i \in FailedRequests(fs.out)

LookupOnly ==
    fs.op = "done" /\ fs.was.op = "get_item_id" /\ fs.out.exc = NoExc
    /\ fs.out.value = None

\* C16 as claimed: an operation that does not fail has absorbed no failed
\* request but the 404 of a best-effort identifier look-up, and a look-up
\* reports 'absent' for a 404 only.
C16_OnlyLookupsAbsorb ==
    Over =>
        /\ \A i \in DOMAIN fs.out.requests :
              Absorbed(i) => /\ fs.out.requests[i].kind = "GET_id"
                             /\ fs.out.requests[i].status = 404
        /\ LookupOnly => fs.was.a[1] = 404

\* C16 as amended: the failed requests an operation absorbs are the 404 of
\* an identifier look-up or of an existence probe (_isfile, _isdir, the file
\* probe of _ls), the 409 of makedirs with exist_ok, and a failed poll of
\* the copy status; a look-up reports 'absent' for a 404 only.
C16_AbsorbedFailures ==
    Over =>
        /\ \A i \in DOMAIN fs.out.requests :
              Absorbed(i) =>
                  \/ /\ fs.out.requests[i].status = 404
                     /\ fs.out.requests[i].kind \in {"GET_id", "GET_probe", "GET_info"}
                  \/ /\ fs.out.requests[i].status = 409
                     /\ fs.op = "done" /\ fs.was.op = "makedirs" /\ fs.was.flag
                  \/ fs.out.requests[i].kind = "GET_status"
        /\ LookupOnly => fs.was.a[1] = 404

\* a move whose look-up of the destination was answered 404 and went on,
\* and whose PATCH was answered 500 and raised
C16_Witness ==
    /\ fs.op = "done" /\ fs.was.op = "mv"
    /\ Len(fs.out.requests) = 4
    /\ fs.out.requests[2].status = 404 /\ fs.out.requests[4].status = 500
    /\ fs.out.exc = "HTTPStatusError" /\ fs.out.inval = <<>>

\* ------------------------------------------------------- reading a range
\* fs._cat_file(path, start, end) and the handle's _fetch_range(start, end),
\* for start and end that are not negative, on a file of some size.
MaxSize == 3

\* AsyncFileSystem._process_limits: f"bytes={start}-{end - 1}", the bounds of
\* the Range header as a pair
process_limits(start, end) == <<start, end - 1>>

\* parse_range_header: (\d+)?-(\d+)? on the header; an end that is not made
\* of digits (a negative one) is None
parse_range_header(range) ==
    <<range[1], IF range[2] >= 0 THEN range[2] ELSE NoInt>>

\* the truth value Python gives an int or None
truthy(n) == n # NoInt /\ n # 0

\* the store's answer to GET .../content with Range: bytes=a-b (RFC 7233):
\* a range whose end is before its start is ignored, one that starts at or
\* after the end of the content is answered 416
serve_range(content, a, b) ==
    IF b < a THEN [status |-> 200, body |-> content]
    ELSE IF a >= Len(content) THEN [status |-> 416, body |-> <<>>]
    ELSE [status |-> 206, body |-> SubSeq(content, a + 1, Min(b + 1, Len(content)))]

\* response = await self._msgraph_get(url, headers=headers); response.content
get_content(c, content, range) ==
    [c EXCEPT !.requests = Append(@, [kind |-> "GET_content",
                                      status |-> serve_range(content, range[1], range[2]).status,
                                      range |-> range]),
              !.exc = http_call_with_retry(
                          <<serve_range(content, range[1], range[2]).status>>,
                          c.retries).exc,
              !.body = serve_range(content, range[1], range[2]).body]

\* if rend > size: rend = size
clamp(rend, size) == IF rend > size THEN size ELSE rend

\* if rstart and rend and (rstart > rend or rstart == rend == size)
short_circuit(rstart, rend, size) ==
    /\ truthy(rstart) /\ truthy(rend)
    /\ (rstart > rend \/ (rstart = rend /\ rend = size))

\* _cat_file from the parsed range on
cat_file_range(c, content, range, r) ==
    IF r[2] # NoInt
    THEN Then(fs_request(c, "GET_size", 200), LAMBDA c1 :
           IF short_circuit(r[1], clamp(r[2], Len(content)), Len(content))
           THEN c1
           ELSE get_content(c1, content, range))
    ELSE get_content(c, content, range)

\* fs._cat_file(path, start, end)
cat_file(c, content, start, end) ==
    cat_file_range(c, content, process_limits(start, end),
                   parse_range_header(process_limits(start, end)))

\* the handle's _fetch_range(start, end)
fetch_range(c, content, start, end) ==
    Then(op_get_item_id(c, 200, FALSE), LAMBDA c1 : cat_file(c1, content, start, end))

InitRead ==
    /\ HandleIdle
    /\ \E via \in {"cat_file", "fetch_range"}, size \in 0..MaxSize,
          start \in 0..(MaxSize + 1), end \in 0..(MaxSize + 2) :
          fs = [op |-> via, size |-> size, start |-> start, end |-> end]

CatFile ==
    /\ fs.op = "cat_file"
    /\ Done(cat_file(OpStart(DefaultRetries), Existing(fs.size), fs.start, fs.end))

FetchRange ==
    /\ fs.op = "fetch_range"
    /\ Done(fetch_range(OpStart(DefaultRetries), Existing(fs.size), fs.start, fs.end))

SpecRead == InitRead /\ [][CatFile \/ FetchRange]_vars

\* a read is over
ReadOver == fs.op = "done" /\ fs.was.op \in {"cat_file", "fetch_range"}

ContentRequests ==
    {i \in DOMAIN fs.out.requests : fs.out.requests[i].kind = "GET_content"}

\* C17 as claimed: a read whose end is past the size returns the bytes from
\* start to the end of the file, for every start from 0 to size, and the end
\* the read is made with is clamped to the size.
C17_EndClampedToSize ==
    (ReadOver /\ fs.was.end > fs.was.size /\ fs.was.start <= fs.was.size) =>
        /\ fs.out.exc = NoExc
        /\ fs.out.body = SubSeq(Existing(fs.was.size), fs.was.start + 1, fs.was.size)
        /\ \A i \in ContentRequests : fs.out.requests[i].range[2] <= fs.was.size

\* C18 as claimed: a read of [size, size], or of a range whose start is past
\* its end, returns nothing and sends no request, for every size and start.
C18_EmptyRangeNoRequest ==
    (ReadOver /\ \/ fs.was.start = fs.was.size /\ fs.was.end = fs.was.size
                 \/ fs.was.start > fs.was.end) =>
        /\ fs.out.exc = NoExc /\ fs.out.body = <<>>
        /\ fs.out.requests = <<>>

\* ------------------------------------------- the cache and failed requests
\* A handle used in any order with requests that may fail, or one call of
\* fs._rm_file / fs._rmdir (__delete_item) or fs._mv.
InitCache ==
    \/ InitAny
    \/ /\ HandleIdle
       /\ fs \in {o \in OpInputs : o.op \in {"delete", "mv"}}

NextCache ==
    \/ fs = Idle /\ Next
    \/ DeleteItem
    \/ Mv

SpecCache == InitCache /\ [][NextCache]_vars

\* the requests that change the store: the PUT of a one-shot upload or of a
\* touch, the commit of a session, the delete and the move
MutatingKinds ==
    {"PUT_content", "POST_commit", "DELETE_item", "POST_permanentDelete", "PATCH_item"}

\* the step sent a mutating request that failed
MutationFailed ==
    \/ /\ fs = Idle
       /\ Len(log') > Len(log)
       /\ log'[Len(log')].status = "error"
       /\ log'[Len(log')].kind \in MutatingKinds
    \/ /\ fs.op \in {"delete", "mv"} /\ fs'.op = "done"
       /\ \E i \in FailedRequests(fs'.out) : fs'.out.requests[i].kind \in MutatingKinds

\* C20: a call whose mutating request (commit of a session, one-shot upload,
\* touch, delete, move) fails leaves the path-information cache exactly as it
\* was: no invalidate_cache is made before the request has succeeded.
C20_CacheAfterSuccess == [][MutationFailed => cache' = cache]_vars

\* a mutating request of the handle, or a delete or move, has failed
C20_Witness ==
    \/ /\ fs = Idle /\ err # NoExc /\ log # <<>>
       /\ log[Len(log)].status = "error"
       /\ log[Len(log)].kind \in {"PUT_content", "POST_commit"}
    \/ /\ fs.op = "done" /\ fs.was.op \in {"delete", "mv"}
       /\ fs.out.exc # NoExc
       /\ \E i \in FailedRequests(fs.out) : fs.out.requests[i].kind \in MutatingKinds

\* ------------------------------------------- removing and making folders
DirNotEmpty == "OSError: Directory not empty"

\* the answers a[k + 1], a[k + 2], ... as the answers of a call made after k
\* requests
Shift(a, k) == [i \in 1..(MaxRequests - k) |-> a[i + k]]

\* fs._rmdir(path, use_recycle_bin=...); isdir and items say what the store
\* holds at path
rmdir(c, a, isdir, items, use_recycle_bin) ==
    Then(is_file(c, a[1], isdir), LAMBDA c1 :
      IF c1.value # "True" THEN [c1 EXCEPT !.exc = "FileNotFoundError"]
      ELSE Then(ls(c1, Shift(a, 1), items, FALSE), LAMBDA c2 :
        IF c2.value = "items" THEN [c2 EXCEPT !.exc = DirNotEmpty]
        ELSE Then(op_get_item_id(c2, a[4], TRUE), LAMBDA c3 :
          delete_item(c3, Shift(a, 3), TRUE, use_recycle_bin))))

\* _rm that never looks whether the folder is empty
rm_unchecked(c, a, isdir, items, recursive, use_recycle_bin) ==
    delete_item(c, a, FALSE, use_recycle_bin)

\* fs._rm(path, recursive, use_recycle_bin=...) for one path: "not recursive
\* and await self._isdir(path) and await self._ls(path)" asks as far as needed
rm(c, a, isdir, items, recursive, use_recycle_bin) ==
    IF recursive THEN delete_item(c, a, FALSE, use_recycle_bin)
    ELSE Then(is_file(c, a[1], isdir), LAMBDA c1 :
      IF c1.value # "True" THEN delete_item(c1, Shift(a, 1), FALSE, use_recycle_bin)
      ELSE Then(ls(c1, Shift(a, 1), items, FALSE), LAMBDA c2 :
        IF c2.value = "items" THEN [c2 EXCEPT !.exc = DirNotEmpty]
        ELSE delete_item(c2, Shift(a, 3), FALSE, use_recycle_bin)))

\* fs._mkdir(path, create_parents)
mkdir_path(c, a, create_parents) ==
    Then(op_get_item_id(c, a[1], FALSE), LAMBDA c1 :
      IF c1.value = None /\ ~create_parents
      THEN [c1 EXCEPT !.exc = "FileNotFoundError"]
      ELSE Then(IF c1.value = None THEN mkdir_parent(c1, a) ELSE c1, LAMBDA c2 :
        Then(fs_request(c2, "POST_children", a[5]), LAMBDA c3 :
          [c3 EXCEPT !.value = "id"])))

DirInputs ==
    {[op |-> "rmdir", a |-> a, isdir |-> d, items |-> i, recursive |-> FALSE,
      use_recycle_bin |-> b] :
        a \in AnswersFor(5), d \in BOOLEAN, i \in BOOLEAN, b \in BOOLEAN}
    \cup {[op |-> "rm", a |-> a, isdir |-> d, items |-> i, recursive |-> r,
           use_recycle_bin |-> b] :
        a \in AnswersFor(5), d \in BOOLEAN, i \in BOOLEAN, r \in BOOLEAN,
        b \in BOOLEAN}
    \cup {[op |-> "mkdir", a |-> a, flag |-> f] : a \in AnswersFor(5), f \in BOOLEAN}
    \cup {o \in OpInputs : o.op = "makedirs"}

InitDirs ==
    /\ HandleIdle
    /\ fs \in DirInputs

Rmdir ==
    /\ fs.op = "rmdir"
    /\ Done(rmdir(OpStart(DefaultRetries), fs.a, fs.isdir, fs.items,
                  fs.use_recycle_bin))

Rm ==
    /\ fs.op = "rm"
    /\ Done(rm(OpStart(DefaultRetries), fs.a, fs.isdir, fs.items, fs.recursive,
               fs.use_recycle_bin))

Mkdir ==
    /\ fs.op = "mkdir"
    /\ Done(mkdir_path(OpStart(DefaultRetries), fs.a, fs.flag))

SpecDirs == InitDirs /\ [][Rmdir \/ Rm \/ Mkdir \/ Makedirs]_vars

\* the delete requests an operation sent
Deletes(out) ==
    {i \in DOMAIN out.requests :
        out.requests[i].kind \in {"DELETE_item", "POST_permanentDelete"}}

\* every request the operation sent was answered with success
AllAnswered(out) == FailedRequests(out) = {}

\* a delete that does not recurse, of a folder that holds a child, the store
\* not answering 404 for the folder
NonEmptyDirDelete ==
    /\ fs.op = "done" /\ fs.was.op \in {"rmdir", "rm"}
    /\ ~fs.was.recursive /\ fs.was.isdir /\ fs.was.items
    /\ fs.was.a[1] # 404

\* rmdir of a path that is not a folder, or that the store does not know
NotADirRmdir ==
    /\ fs.op = "done" /\ fs.was.op = "rmdir"
    /\ \/ fs.was.a[1] = 404
       \/ fs.was.a[1] = 200 /\ ~fs.was.isdir

\* C21: rmdir, or rm without recursive, of a folder that holds a child fails,
\* with "Directory not empty" when its requests were answered, and sends no
\* delete request; rmdir of a path that is not a folder fails with
\* FileNotFoundError and sends no delete request.
C21_NonEmptyDirKept ==
    /\ NonEmptyDirDelete =>
         /\ fs.out.exc # NoExc
         /\ Deletes(fs.out) = {}
         /\ AllAnswered(fs.out) => fs.out.exc = DirNotEmpty
    /\ NotADirRmdir =>
         /\ fs.out.exc = "FileNotFoundError"
         /\ Deletes(fs.out) = {}

\* both cases happen: a folder with a child is refused by rm, and rmdir is
\* given a path that is not a folder
C21_Witness ==
    \/ NonEmptyDirDelete /\ fs.was.op = "rm" /\ fs.out.exc = DirNotEmpty
    \/ NotADirRmdir /\ fs.was.a[1] = 200 /\ fs.was.use_recycle_bin

\* the request that creates the folder itself was answered 409
Conflict ==
    /\ fs.op = "done" /\ fs.was.op \in {"mkdir", "makedirs"}
    /\ fs.out.requests # <<>>
    /\ fs.out.requests[Len(fs.out.requests)].kind = "POST_children"
    /\ fs.out.requests[Len(fs.out.requests)].status = 409

\* C22 as claimed: a 409 answer to the request that creates a folder reaches
\* the caller of mkdir and of makedirs as FileExistsError, except that
\* makedirs with exist_ok returns normally.
C22_ConflictIsFileExists ==
    Conflict =>
        IF fs.was.op = "makedirs" /\ fs.was.flag THEN fs.out.exc = NoExc
        ELSE fs.out.exc = "FileExistsError"

\* ------------------------------------------------- constructing a handle
\* 320 KiB, in bytes.  The handle model counts bytes in units of 320 KiB, so
\* a handle of block size b models one opened with block_size = b * Alignment.
Alignment == 320 * 1024

\* fs.blocksize = 10 * 1024 * 1024
FsBlockSize == 10 * 1024 * 1024

\* the block_size arguments tried: none (NoInt, for "default" and None),
\* multiples of 320 KiB and sizes one byte off
OpenBlockSizes ==
    {NoInt} \cup {b * Alignment : b \in BlockSizes}
                \cup {b * Alignment + 1 : b \in BlockSizes} \cup {1}

\* self.blocksize = block_size if block_size is not None else self.fs.blocksize
blocksize_of(block_size) == IF block_size = NoInt THEN FsBlockSize ELSE block_size

\* _init__mixin that accepts every block size
init_mixin_unvalidated(mode, block_size) == NoExc

\* _init__mixin: the exception it raises, NoExc when it returns
init_mixin(mode, block_size) ==
    IF mode \in {"wb", "ab"} /\ blocksize_of(block_size) % Alignment # 0
    THEN "ValueError"
    ELSE NoExc

\* before MSGraphBuffredFile(...) / MSGrpahStreamedFile(...) is called
InitOpen ==
    /\ HandleIdle
    /\ \E flavor \in {"sync", "async"}, mode \in {"rb", "wb", "ab"},
          autocommit \in BOOLEAN, block_size \in OpenBlockSizes,
          exists \in BOOLEAN, size \in 0..MaxExisting :
        /\ mode \in {"rb", "ab"} => exists
        /\ ~exists => size = 0
        /\ (mode = "wb" /\ exists) => size = MaxExisting
        /\ fs = [op |-> "open", flavor |-> flavor, mode |-> mode,
                 autocommit |-> autocommit, block_size |-> block_size,
                 exists |-> exists, size |-> size]

\* the constructor runs: it raises, or the handle exists on a store that
\* holds what the arguments say
Open ==
    /\ fs.op = "open"
    /\ IF init_mixin(fs.mode, fs.block_size) # NoExc
       THEN /\ fs' = [op |-> "refused", was |-> fs,
                      exc |-> init_mixin(fs.mode, fs.block_size)]
            /\ UNCHANGED <<h, srv, srv0>>
       ELSE /\ fs' = [op |-> "opened", was |-> fs, exc |-> NoExc]
            /\ h' = NewHandle(fs.flavor, fs.mode, fs.autocommit,
                              blocksize_of(fs.block_size) \div Alignment,
                              fs.exists, fs.size)
            /\ srv' = [exists |-> fs.exists, content |-> Existing(fs.size),
                       parent |-> TRUE, sess |-> <<>>, sessState |-> "none"]
            /\ srv0' = srv'
    /\ UNCHANGED <<log, now, err, calls, stream, cache>>

\* the life cycle of the write handles whose block size is one of BlockSizes
OpenedForWrite ==
    /\ fs.op = "opened" /\ fs.was.mode \in {"wb", "ab"}
    /\ h.blocksize \in BlockSizes

NextOpen ==
    \/ Open
    \/ OpenedForWrite /\ NextLife

SpecOpen == InitOpen /\ [][NextOpen]_vars

\* the constructor was called for a write or append handle with a block size
\* that is not a multiple of 320 KiB
Misaligned(o) ==
    o.mode \in {"wb", "ab"} /\ blocksize_of(o.block_size) % Alignment # 0

\* C23: a write or append handle constructed with a block size that is not a
\* multiple of 320 KiB raises ValueError and no handle exists, so no request
\* and no session is ever made with such a block size; a read handle is
\* constructed whatever the block size.
C23_BlockSizeValidated ==
    /\ fs.op \in {"opened", "refused"} =>
         /\ Misaligned(fs.was) <=> fs.op = "refused"
         /\ fs.op = "refused" => fs.exc = "ValueError" /\ log = <<>>
         /\ fs.was.mode = "rb" => fs.op = "opened"
    /\ (\E i \in DOMAIN log : log[i].kind = "POST_create") =>
         /\ fs.op = "opened"
         /\ blocksize_of(fs.was.block_size) % Alignment = 0

\* an append handle with a block size one byte off was refused
C23_Witness ==
    fs.op = "refused" /\ fs.was.mode = "ab" /\ fs.was.block_size = 2 * Alignment + 1

\* --------------------------------------------- requests and their answers
\* _upload_chunk(final) on a handle that holds a session, one step per
\* statement: a request is sent, the coroutine waits at its await until the
\* response is there, and only then goes on.  Only the sizes matter here:
\*   buffer     bytes of self.buffer not read yet
\*   remaining  len(self._remaining_bytes)   chunk  len(chunk_to_write)
\*   sent       the requests sent, in order  answers  their answers, "pending"
\*              while the request is in flight
MaxBuffer == 5

UploadInputs ==
    {[op |-> "upload", pc |-> "start", blocksize |-> b, final |-> f,
      autocommit |-> ac, expired |-> e, buffer |-> n, remaining |-> r,
      chunk |-> 0, start |-> k * b, sent |-> <<>>, answers |-> <<>>,
      exc |-> NoExc] :
        b \in BlockSizes, f \in BOOLEAN, ac \in BOOLEAN, e \in BOOLEAN,
        n \in 0..MaxBuffer, r \in 0..1, k \in 0..1}

\* the handle holds a session: with autocommit it was created when a whole
\* block had been written, and a tail is shorter than a block
InitUpload ==
    /\ HandleIdle
    /\ fs \in {u \in UploadInputs :
                 /\ u.autocommit => u.start + u.remaining + u.buffer >= u.blocksize
                 /\ u.remaining > 0 => u.start > 0}

\* requests in flight
InFlight(f) == {i \in DOMAIN f.answers : f.answers[i] = "pending"}

\* await that does not wait for the response
awaited_at_once(f) == TRUE

\* the response of the request the coroutine awaits is there
awaited(f) == f.answers[Len(f.answers)] # "pending"

\* a request leaves
send(f, kind, waiting) ==
    [f EXCEPT !.sent = Append(@, kind), !.answers = Append(@, "pending"),
              !.pc = waiting]

\* self.buffer.read(self.blocksize)
read_block(f) ==
    [f EXCEPT !.chunk = Min(f.buffer, f.blocksize),
              !.buffer = @ - Min(f.buffer, f.blocksize)]

\* buffer.seek(0), then the first chunk: the tail and what fills a block
FirstChunk ==
    /\ fs.op = "upload" /\ fs.pc = "start"
    /\ fs' = IF fs.autocommit /\ fs.final
                /\ fs.start + fs.remaining + fs.buffer < fs.blocksize
             THEN [fs EXCEPT !.pc = "after"]
             ELSE IF fs.remaining > 0
             THEN [fs EXCEPT !.chunk = fs.remaining
                                       + Min(fs.buffer, fs.blocksize - fs.remaining),
                             !.buffer = @ - Min(fs.buffer, fs.blocksize - fs.remaining),
                             !.remaining = 0, !.pc = "loop"]
             ELSE [read_block(fs) EXCEPT !.pc = "loop"]
    /\ HandleUnchanged

\* while chunk_to_write: a short chunk that is not the last is kept, else
\* the PUT is sent
ChunkLoop ==
    /\ fs.op = "upload" /\ fs.pc = "loop"
    /\ fs' = IF fs.chunk = 0 THEN [fs EXCEPT !.pc = "after"]
             ELSE IF fs.chunk < fs.blocksize /\ ~fs.final
             THEN [fs EXCEPT !.remaining = fs.chunk, !.chunk = 0, !.pc = "after"]
             ELSE send(fs, "PUT_chunk", "await_put")
    /\ HandleUnchanged

\* the store answers a request in flight
Respond ==
    /\ fs.op = "upload"
    /\ \E i \in InFlight(fs), answer \in {"ok", "error"} :
         fs' = [fs EXCEPT !.answers[i] = answer]
    /\ HandleUnchanged

\* response = await self.fs._msgraph_put(...): then the offset advances and
\* the next chunk is read
ChunkAnswered ==
    /\ fs.op = "upload" /\ fs.pc = "await_put"
    /\ awaited(fs)
    /\ fs' = IF fs.answers[Len(fs.answers)] = "error"
             THEN [fs EXCEPT !.pc = "raised", !.exc = "HTTPStatusError"]
             ELSE [read_block([fs EXCEPT !.start = @ + fs.chunk]) EXCEPT !.pc = "loop"]
    /\ HandleUnchanged

\* if self.autocommit and final: await self._commit(), which with a session
\* and bytes written goes to _commit_upload_session
AfterLoop ==
    /\ fs.op = "upload" /\ fs.pc = "after"
    /\ fs' = IF ~(fs.autocommit /\ fs.final) THEN [fs EXCEPT !.pc = "returned"]
             ELSE IF fs.expired
             THEN [fs EXCEPT !.pc = "raised", !.exc = SessionExpiredError]
             ELSE send(fs, "POST_commit", "await_commit")
    /\ HandleUnchanged

\* await self.fs._msgraph_post(url) of _commit_upload_session
CommitAnswered ==
    /\ fs.op = "upload" /\ fs.pc = "await_commit"
    /\ awaited(fs)
    /\ fs' = IF fs.answers[Len(fs.answers)] = "error"
             THEN [fs EXCEPT !.pc = "raised", !.exc = "HTTPStatusError"]
             ELSE [fs EXCEPT !.pc = "returned"]
    /\ HandleUnchanged

NextUpload ==
    \/ FirstChunk
    \/ ChunkLoop
    \/ Respond
    \/ ChunkAnswered
    \/ AfterLoop
    \/ CommitAnswered

SpecUpload == InitUpload /\ [][NextUpload]_vars

\* C24: a chunk upload and the commit of the session are sent only when every
\* request the handle sent before has its response: at most one request of
\* the handle is in flight.
C24_OneRequestInFlight ==
    fs.op = "upload" =>
        /\ Cardinality(InFlight(fs)) <= 1
        /\ \A i \in InFlight(fs) : i = Len(fs.sent)

\* two chunks went out and were answered, and the commit is in flight
C24_Witness ==
    /\ fs.op = "upload" /\ Len(fs.sent) = 3
    /\ fs.sent[3] = "POST_commit" /\ InFlight(fs) = {3}

\* ------------------------------------------------ the expiry of a session
\* the requests of kind k a step added to the log and that succeeded
NewOk(kind) == {i \in NewSent(kind) : log'[i].status = "ok"}

\* C25: a step whose chunk uploads succeeded and that leaves the handle its
\* session leaves the expiry the response carried (now + SessionTTL);
\* commit and abort test that value: with a session whose expiry is not
\* behind, commit is not refused as expired and sends its commit (or, with
\* nothing to commit, the delete), and discard sends the delete.  A session
\* is only ever created at time 0, so its first expiry is SessionTTL.
C25_ExpiryRefreshed ==
    [][/\ NewOk("POST_create") # {} => now = 0
       /\ (NewOk("PUT_chunk") # {} /\ NewOk("PUT_chunk") = NewSent("PUT_chunk")
           /\ h'.url # None) => h'.expiry = now + SessionTTL
       /\ (CommitStep /\ h.url # None /\ now <= h.expiry) =>
            /\ err' # SessionExpiredError
            /\ NewSent("POST_commit") \cup NewSent("DELETE_session") # {}
       /\ (DiscardStep /\ h.url # None /\ now <= h.expiry) =>
            NewSent("DELETE_session") # {}
      ]_vars

\* the session's first expiry (SessionTTL) is behind, a later chunk extended
\* it, and the commit was sent and accepted
C25_Witness ==
    /\ now > SessionTTL
    /\ log # <<>> /\ log[Len(log)].kind = "POST_commit"
    /\ log[Len(log)].status = "ok"
    /\ srv.sessState = "committed"

\* ------------------------------------------------ the two flavours of handle
\* The same calls are made on a blocking handle (h, srv, log, err) and on a
\* cooperative one (fs.h, fs.srv, fs.log, fs.err), each with its own store,
\* the stores holding the same at the start and failing the same request.

\* fs._open(path, mode): isfile and size for "a", then get_item_id
open_sync(X, mode) ==
    Then(IF mode = "ab"
         THEN Request(X, "GET_probe", "open", <<>>, <<>>, ~X.srv.exists)
         ELSE X, LAMBDA A :
      Then(IF mode = "ab"
           THEN Request(A, "GET_size", "open", <<>>, <<>>, ~A.srv.exists)
           ELSE A, LAMBDA B :
        ThenVal(get_item_id(B, "file", FALSE), LAMBDA C, id : C)))

\* fs.open_async(path, mode): _isfile for "a", _get_item_id, then _info for "a"
open_async(X, mode) ==
    Then(IF mode = "ab"
         THEN Request(X, "GET_probe", "open", <<>>, <<>>, ~X.srv.exists)
         ELSE X, LAMBDA A :
      ThenVal(get_item_id(A, "file", FALSE), LAMBDA B, id :
        IF mode = "ab"
        THEN Request(B, "GET_info", "open", <<>>, <<>>, ~B.srv.exists)
        ELSE B))

InitTwin ==
    \E mode \in {"wb", "ab"}, autocommit \in BOOLEAN, exists \in BOOLEAN,
       size \in 0..MaxExisting :
        /\ mode = "ab" => exists
        /\ ~exists => size = 0
        /\ (mode = "wb" /\ exists) => size = MaxExisting
        /\ h = NewHandle("sync", mode, autocommit, SmallestBlock, exists, size)
        /\ srv = [exists |-> exists, content |-> Existing(size), parent |-> TRUE,
                  sess |-> <<>>, sessState |-> "none"]
        /\ srv0 = srv
        /\ log = <<>> /\ now = 0 /\ err = NoExc /\ calls = 0 /\ stream = <<>>
        /\ cache = NoListing
        /\ fs = [op |-> "twin", stage |-> "new",
                 h |-> NewHandle("async", mode, autocommit, SmallestBlock,
                                 exists, size),
                 srv |-> srv, log |-> <<>>, err |-> NoExc]

\* the execution record of the cooperative handle
TwinStart(f) ==
    [h |-> fs.h, srv |-> fs.srv, log |-> fs.log, now |-> now, exc |-> NoExc,
     fail |-> f, cache |-> cache]

\* both calls are over
TwinFinish(R, T, stage) ==
    /\ R.fail = 0 \/ T.fail = 0
    /\ h' = R.h /\ srv' = R.srv /\ log' = R.log /\ err' = R.exc
    /\ fs' = [fs EXCEPT !.h = T.h, !.srv = T.srv, !.log = T.log, !.err = T.exc,
                        !.stage = stage]
    /\ UNCHANGED <<srv0, now, cache>>

TwinOpen ==
    /\ fs.op = "twin" /\ fs.stage = "new"
    /\ \E f \in FailChoices(MaxFailures) :
         LET R == open_sync(Start(f), h.mode)
             T == open_async(TwinStart(f), h.mode)
         IN TwinFinish(R, T, IF Raised(R) \/ Raised(T) THEN "failed" ELSE "open")
    /\ UNCHANGED <<calls, stream>>

TwinOpened == fs.op = "twin" /\ fs.stage = "open"

TwinWrite ==
    /\ TwinOpened /\ calls = 0 /\ ~h.closed /\ ~h.forced
    /\ \E n \in 0..MaxWritten(AnyBlocks), f \in FailChoices(MaxFailures) :
         /\ Written + n <= MaxWritten(AnyBlocks)
         /\ TwinFinish(write(Start(f), Data(Written, n)),
                       write(TwinStart(f), Data(Written, n)), "open")
         /\ stream' = stream \o Data(Written, n)
    /\ UNCHANGED calls

TwinClose ==
    /\ TwinOpened
    /\ \E f \in FailChoices(MaxFailures) :
         TwinFinish(close(Start(f)), close(TwinStart(f)), "open")
    /\ UNCHANGED <<calls, stream>>

TwinCommit ==
    /\ TwinOpened /\ calls < LifeCalls
    /\ \E f \in FailChoices(MaxFailures) :
         TwinFinish(commit(Start(f)), commit(TwinStart(f)), "open")
    /\ calls' = calls + 1
    /\ UNCHANGED stream

TwinDiscard ==
    /\ TwinOpened /\ calls < LifeCalls
    /\ \E f \in FailChoices(MaxFailures) :
         TwinFinish(discard(Start(f)), discard(TwinStart(f)), "open")
    /\ calls' = calls + 1
    /\ UNCHANGED stream

NextTwin ==
    \/ TwinOpen
    \/ TwinWrite
    \/ TwinClose
    \/ TwinCommit
    \/ TwinDiscard
    \/ TwinOpened /\ Tick

SpecTwin == InitTwin /\ [][NextTwin]_vars

\* the session state of a handle
SessionOf(hh) ==
    <<hh.url, hh.expiry, hh.chunk_start, hh.remaining, hh.write_called>>

\* C26 as claimed: after the same open, write, close, commit and discard
\* calls with the same answers, the blocking and the cooperative handle have
\* sent the same requests and hold the same session state.
C26_FlavoursAgree ==
    (fs.op = "twin" /\ fs.stage # "new") =>
        /\ log = fs.log
        /\ SessionOf(h) = SessionOf(fs.h)

\* the requests open sends: one lookup for "wb", three for "ab"
OpenLen(mode) == IF mode = "ab" THEN 3 ELSE 1

Kinds(l) == [i \in DOMAIN l |-> l[i].kind]

\* C26, amended: once both handles are open, after the same write, close,
\* commit and discard calls with the same answers they have sent the same
\* requests and hold the same session state, and the calls raised the same;
\* the opens of an append handle differ: file probe, size, id for the
\* blocking one and file probe, id, info for the cooperative one.
C26_FlavoursAgreeOnceOpen ==
    (fs.op = "twin" /\ fs.stage = "open") =>
        /\ SubSeq(log, OpenLen(h.mode) + 1, Len(log))
             = SubSeq(fs.log, OpenLen(h.mode) + 1, Len(fs.log))
        /\ SessionOf(h) = SessionOf(fs.h)
        /\ err = fs.err /\ srv = fs.srv
        /\ h.mode = "wb" => log = fs.log
        /\ h.mode = "ab" =>
             /\ Kinds(SubSeq(log, 1, 3)) = <<"GET_probe", "GET_size", "GET_id">>
             /\ Kinds(SubSeq(fs.log, 1, 3)) = <<"GET_probe", "GET_id", "GET_info">>

\* both append handles took bytes, uploaded chunks and committed their session
C26_Witness ==
    /\ fs.op = "twin" /\ fs.stage = "open" /\ h.mode = "ab"
    /\ h.closed /\ fs.h.closed
    /\ srv.sessState = "committed" /\ fs.srv.sessState = "committed"
    /\ \E i \in DOMAIN fs.log : fs.log[i].kind = "PUT_chunk"

\* ------------------------------------------------ what the requests carry
\* A handle in its life cycle, or one operation of the filesystem object.
NextRequests ==
    \/ fs = Idle /\ NextLife
    \/ NextOps

SpecRequests == (Init \/ InitOps \/ InitCopy) /\ [][NextRequests]_vars

\* the requests that create or replace something: creation of an upload
\* session, PUT of a content (one-shot upload, touch), creation of a folder,
\* copy, move
WritingKinds == {"POST_create", "PUT_content", "POST_children", "POST_copy", "PATCH_item"}

\* C27 as claimed: every request that creates an upload session, uploads a
\* content in one shot, touches, creates a folder, copies or moves carries a
\* conflict-behaviour directive.
C27_DirectiveEverywhere ==
    /\ \A i \in DOMAIN log :
         log[i].kind \in WritingKinds => log[i].conflict # None
    /\ Over =>
         \A i \in DOMAIN fs.out.requests :
           fs.out.requests[i].kind \in WritingKinds
             => fs.out.requests[i].conflict # None

\* ------------------------------------------------------ paths and targets
\* MSGDriveFS._path_to_url.  A path is a sequence of characters, "/" or a
\* letter, with or without the protocol in front; a URL is the sequence of
\* its parts.
MaxPath == 3

Paths == UNION {[1..n -> {"/", "a"}] : n \in 0..MaxPath}

DriveUrl == "https://graph.microsoft.com/v1.0/drives/{drive_id}"

\* an id "{parent_id}:/{file_name}:" as the upload code builds it
CompositeId == "parent-id:/name:"

\* str.rstrip("/")
RECURSIVE rstrip(_)
rstrip(p) ==
    IF p # <<>> /\ p[Len(p)] = "/" THEN rstrip(SubSeq(p, 1, Len(p) - 1)) ELSE p

\* AbstractFileSystem._strip_protocol: the protocol is cut off, then the
\* trailing slashes; root_marker is ""
strip_protocol(proto, p) == rstrip(p)

\* path that is given its leading slash when it has none
leading_slash(p) == IF p # <<>> /\ p[1] # "/" THEN <<"/">> \o p ELSE p

\* f":{path}:" for a path that is not empty
wrapped(p) == IF p # <<>> THEN <<":">> \o p \o <<":">> ELSE p

\* action and f"/{action}" if action else ""
action_suffix(action) == IF action # None THEN <<"/", action>> ELSE <<>>

\* _path_to_url(path, item_id, action)
path_to_url(proto, p, id, action) ==
    IF id # None
    THEN <<DriveUrl, "/items/", id>> \o action_suffix(action)
    ELSE <<DriveUrl, "/root">>
         \o wrapped(leading_slash(rstrip(strip_protocol(proto, p))))
         \o action_suffix(action)

InitResolve ==
    /\ HandleIdle
    /\ \E proto \in BOOLEAN, p \in Paths, id \in {None, FileId, CompositeId},
          action \in {None, "content"} :
         fs = [op |-> "resolve", proto |-> proto, path |-> p, item_id |-> id,
               action |-> action]

PathToUrl ==
    /\ fs.op = "resolve"
    /\ fs' = [op |-> "resolved", was |-> fs,
              url |-> path_to_url(fs.proto, fs.path, fs.item_id, fs.action),
              requests |-> <<>>]
    /\ HandleUnchanged

SpecResolve == InitResolve /\ [][PathToUrl]_vars

\* the part of a path-form URL between "/root" and the action: the wrapped
\* path without its two colons
PathPart(url, action) ==
    LET inner == SubSeq(url, 3, Len(url) - Len(action_suffix(action)))
    IN IF inner = <<>> THEN <<>> ELSE SubSeq(inner, 2, Len(inner) - 1)

\* exactly one leading slash, no trailing slash
OneLeadingSlash(p) ==
    /\ p # <<>> /\ p[1] = "/"
    /\ Len(p) >= 2 /\ p[2] # "/"
    /\ p[Len(p)] # "/"

\* C28 as claimed: with an id the target is items/<id> and the action,
\* whatever the path, a composite id included as it is; without an id it is
\* the root-relative form of the path with exactly one leading slash and no
\* trailing slash (nothing for the root itself) and the action; no request
\* is sent.
C28_Resolve ==
    fs.op = "resolved" =>
        /\ fs.requests = <<>>
        /\ fs.was.item_id # None =>
             fs.url = <<DriveUrl, "/items/", fs.was.item_id>>
                      \o action_suffix(fs.was.action)
        /\ fs.was.item_id = None =>
             /\ fs.url[2] = "/root"
             /\ SubSeq(fs.url, Len(fs.url) - Len(action_suffix(fs.was.action)) + 1,
                       Len(fs.url)) = action_suffix(fs.was.action)
             /\ \/ PathPart(fs.url, fs.was.action) = <<>>
                \/ OneLeadingSlash(PathPart(fs.url, fs.was.action))

\* -------------------------------------------- dircache after a commit
\* a handle of the smallest block size on a filesystem whose dircache holds
\* any listings the caller stored for the folders above the file
InitDircache ==
    \E flavor \in {"sync", "async"}, mode \in {"wb", "ab"}, autocommit \in BOOLEAN,
       exists \in BOOLEAN, size \in 0..MaxExisting,
       listing \in [1..Depth -> Listings] :
        /\ mode = "ab" => exists
        /\ ~exists => size = 0
        /\ (mode = "wb" /\ exists) => size = MaxExisting
        /\ h = NewHandle(flavor, mode, autocommit, SmallestBlock, exists, size)
        /\ srv = [exists |-> exists, content |-> Existing(size), parent |-> TRUE,
                  sess |-> <<>>, sessState |-> "none"]
        /\ srv0 = srv
        /\ log = <<>>
        /\ now = 0
        /\ err = NoExc
        /\ calls = 0
        /\ stream = <<>>
        /\ fs = Idle
        /\ cache = [listing |-> listing, inval |-> <<>>]

\* the handle is handed at most DircacheBlocks blocks and one byte
DircacheBlocks == 1

\* the life cycle of the handle
NextDircache ==
    \/ ~Ending /\ Write(0, 0, DircacheBlocks)
    \/ Close(0)
    \/ Commit(0, LifeCalls)
    \/ Discard(0, LifeCalls)
    \/ Tick

SpecDircache == InitDircache /\ [][NextDircache]_vars

\* the invalidate_cache calls a step makes
NewInval == SubSeq(cache'.inval, Len(cache.inval) + 1, Len(cache'.inval))

Invalidated(i) == \E k \in DOMAIN NewInval : NewInval[k] = DirName(i)

MaxTouches == 2

\* datetime.now(): the name datetime is the module, which has no now
AttributeError == "AttributeError: module 'datetime' has no attribute 'now'"

\* the branch of _touch for an item that exists and is not to be truncated:
\* its own test of truncate never holds, so it goes for the PATCH of
\* lastModifiedDateTime, whose body raises while it is built
touch_existing(X, truncate) ==
    IF truncate
    THEN Then(Request(X, "PUT_content", "touch", <<>>, <<>>, FALSE),
              LAMBDA R : [R EXCEPT !.srv.content = <<>>])
    ELSE [X EXCEPT !.exc = AttributeError]

\* the other branch of _touch: the parent's id, then PUT of empty content
\* on parent-id:/name:
touch_under_parent(X) ==
    ThenVal(get_item_id(X, "parent", TRUE),
            LAMBDA Z, pid :
              Then(Request(Z, "PUT_content", "touch", <<>>, <<>>, FALSE),
                   LAMBDA R : [R EXCEPT !.srv.exists = TRUE,
                                        !.srv.content = <<>>]))

\* fs._touch(path, truncate, item_id)
fs_touch(X, truncate, id) ==
    ThenVal(IF id # None THEN Return(X, id) ELSE get_item_id(X, "file", FALSE),
            LAMBDA Y, found :
              Then(IF found # None /\ ~truncate THEN touch_existing(Y, truncate)
                   ELSE touch_under_parent(Y),
                   LAMBDA R : [R EXCEPT !.cache = invalidate_cache(@, "file")]))

\* a store with or without the file and its folder, no touch made yet
InitTouch ==
    \E exists \in BOOLEAN, parent \in BOOLEAN, size \in 0..MaxExisting :
        /\ exists => parent
        /\ ~exists => size = 0
        /\ h = NewHandle("sync", "wb", TRUE, SmallestBlock, FALSE, 0)
        /\ srv = [exists |-> exists, content |-> Existing(size), parent |-> parent,
                  sess |-> <<>>, sessState |-> "none"]
        /\ srv0 = srv /\ log = <<>> /\ now = 0 /\ err = NoExc
        /\ calls = 0 /\ stream = <<>>
        /\ cache = NoListing
        /\ fs = [op |-> "touch", n |-> 0, truncate |-> TRUE, was |-> srv]

\* fs.touch(path, truncate=..., item_id=...); the id is handed over only for
\* a file that exists
Touch ==
    \E truncate \in BOOLEAN, given \in BOOLEAN, f \in 0..MaxFailAt :
        /\ fs.op = "touch" /\ fs.n < MaxTouches
        /\ given => srv.exists
        /\ LET R == fs_touch(Start(f), truncate, IF given THEN FileId ELSE None)
           IN /\ R.fail = 0
              /\ srv' = R.srv /\ log' = R.log /\ err' = R.exc
              /\ cache' = R.cache
        /\ fs' = [op |-> "touch", n |-> fs.n + 1, truncate |-> truncate,
                  was |-> srv]
        /\ UNCHANGED <<h, srv0, now, calls, stream>>

SpecTouch == InitTouch /\ [][Touch]_vars

\* the last touch sent this request and it was answered with success
TouchSent(kind) ==
    /\ log # <<>>
    /\ log[Len(log)].kind = kind /\ log[Len(log)].by = "touch"
    /\ log[Len(log)].status = "ok"

\* C30: when no request of a touch fails for a reason of the network, (1) on
\* a file that exists, with truncate, an empty upload is sent and the file
\* is empty; (2) on a file that exists, without truncate, the call returns,
\* has sent the update of the modification time and the content is as it
\* was; (3) on a missing path whose folder exists an empty file is created;
\* (4) on a missing path whose folder is missing FileNotFoundError is raised
\* and nothing is created.
C30_Touch ==
    fs.op = "touch" /\ fs.n > 0 /\ err # "HTTPError" =>
        /\ fs.was.exists /\ fs.truncate =>
             err = NoExc /\ TouchSent("PUT_content") /\ srv.exists /\ srv.content = <<>>
        /\ fs.was.exists /\ ~fs.truncate =>
             err = NoExc /\ TouchSent("PATCH_item") /\ srv.content = fs.was.content
        /\ ~fs.was.exists /\ fs.was.parent =>
             err = NoExc /\ TouchSent("PUT_content") /\ srv.exists /\ srv.content = <<>>
        /\ ~fs.was.exists /\ ~fs.was.parent =>
             err = "FileNotFoundError" /\ srv = fs.was

\* ------------------------------------------- the session and its requests
\* C31: over any sequence of write, flush, close, commit and discard calls,
\* with requests that may fail: every chunk upload and every session commit
\* in the log was sent while the handle held a session; the session URL is
\* set exactly when the expiry is set; the pending tail is non-empty only
\* while the URL is set.
C31_SessionHeld ==
    /\ \A i \in Sent("PUT_chunk") \cup Sent("POST_commit") : log[i].held
    /\ h.url # None <=> h.expiry # NoInt
    /\ h.remaining # <<>> => h.url # None

\* a handle that holds a session and a pending tail after a chunk went up,
\* and one request failed on the way
C31_Witness ==
    /\ h.url # None /\ h.expiry # NoInt /\ h.remaining # <<>>
    /\ \E i \in Sent("PUT_chunk") : log[i].status = "ok" /\ log[i].held
    /\ Failures > 0

\* ------------------------------------------------------ the upload route
\* C32 as claimed: over the life of a handle the log never holds both a
\* one-shot upload and a chunk upload or session commit.
C32_OneRoute ==
    OneShots # <<>> => Chunks = <<>> /\ Sent("POST_commit") = {}

\* ------------------------------------------- after a failed chunk upload
\* only write and close were called, and no request failed but chunk uploads
OnlyChunksFailed ==
    /\ calls = 0
    /\ \A i \in DOMAIN log : log[i].status = "error" => log[i].kind = "PUT_chunk"

\* C33 as claimed: when only write and close are called and a chunk upload
\* fails, the bytes the session accepted, in order, are still a prefix of
\* the handle's byte stream after the caller went on writing or closing.
C33_AcceptedIsPrefix ==
    OnlyChunksFailed =>
        /\ Len(srv.sess) <= Len(stream)
        /\ srv.sess = SubSeq(stream, 1, Len(srv.sess))

\* ------------------------------------------------- a missing parent folder
\* C34 as claimed: for a file that does not exist under a parent folder that
\* does not exist, neither a content upload nor a session creation is ever
\* sent, and the call that looked the parent up raised FileNotFoundError.
C34_AbsentParentNoRequest ==
    (~srv0.exists /\ ~srv0.parent) =>
        /\ Sent("PUT_content") = {} /\ Sent("POST_create") = {}
        /\ (log # <<>> /\ log[Len(log)].by = "parent") => err = "FileNotFoundError"

\* ------------------------------------- a delete against another client
\* most children the folder holds
MaxChildren == 3

\* _rmdir / _rm(recursive=False) of a folder, one request at a time, while
\* another client adds children to the folder.  pc is the request the call
\* sends next, children what the store holds in the folder, lost the number
\* of children that went with the folder when the delete took effect.
InitRace ==
    /\ HandleIdle
    /\ \E call \in {"rmdir", "rm"}, bin \in BOOLEAN, n \in 0..MaxChildren :
         fs = [op |-> "race", call |-> call, use_recycle_bin |-> bin,
               pc |-> "isdir", children |-> n, exists |-> TRUE,
               requests |-> <<>>, exc |-> NoExc, lost |-> 0]

\* the call sends a request and goes on to the next one
RaceStep(kind, pc) ==
    fs' = [fs EXCEPT !.requests = Append(@, kind), !.pc = pc]

\* await self._isdir(path): the path is a folder
RaceIsDir ==
    /\ fs.op = "race" /\ fs.pc = "isdir"
    /\ RaceStep("GET_probe", "ls")
    /\ HandleUnchanged

\* await self._ls(path): GET children; a folder with children raises
\* "Directory not empty"
RaceLs ==
    /\ fs.op = "race" /\ fs.pc = "ls"
    /\ IF fs.children > 0
       THEN fs' = [fs EXCEPT !.requests = Append(@, "GET_children"),
                             !.pc = "done", !.exc = DirNotEmpty]
       ELSE RaceStep("GET_children", "ls_info")
    /\ HandleUnchanged

\* _ls with no children: "maybe the path is a file", _info of the path
RaceLsInfo ==
    /\ fs.op = "race" /\ fs.pc = "ls_info"
    /\ RaceStep("GET_info", "get_id")
    /\ HandleUnchanged

\* _get_item_id(path, throw_on_missing=True), in _rmdir or in __delete_item
RaceGetId ==
    /\ fs.op = "race" /\ fs.pc = "get_id"
    /\ RaceStep("GET_id", "delete")
    /\ HandleUnchanged

\* __delete_item: DELETE or permanentDelete on the id; the store deletes the
\* folder with whatever it holds
RaceDelete ==
    /\ fs.op = "race" /\ fs.pc = "delete"
    /\ fs' = [fs EXCEPT !.requests = Append(@, IF fs.use_recycle_bin
                                                THEN "DELETE_item"
                                                ELSE "POST_permanentDelete"),
                        !.pc = "done", !.exists = FALSE,
                        !.lost = fs.children, !.children = 0]
    /\ cache' = invalidate_cache(cache, "file")
    /\ UNCHANGED <<h, srv, srv0, log, now, err, calls, stream>>

\* another client creates a child in the folder
OtherCreates ==
    /\ fs.op = "race" /\ fs.exists /\ fs.children < MaxChildren
    /\ fs' = [fs EXCEPT !.children = @ + 1]
    /\ HandleUnchanged

NextRace ==
    RaceIsDir \/ RaceLs \/ RaceLsInfo \/ RaceGetId \/ RaceDelete \/ OtherCreates

SpecRace == InitRace /\ [][NextRace]_vars

\* C35 as claimed: when the delete request of rmdir or of a non-recursive rm
\* takes effect, the folder holds no child, whatever another client did
\* between the look at the folder and the delete.
C35_NoChildLost ==
    (fs.op = "race" /\ ~fs.exists) => fs.lost = 0

\* ------------------------------------------- the polling loop, step by step
\* polls and delays are counted up to PollCount
PollCount == 3

Terminal_status(st) == st \in {"completed", "failed"}

\* the loop that gives up when the body of a poll has no status field
after_status_strict(status) ==
    IF status = "completed" THEN "returned"
    ELSE IF status = "failed" \/ status = None THEN "raised"
    ELSE "sleep"

\* the body of the loop after a poll: break on completed, raise on failed,
\* else asyncio.sleep(1)
after_status(status) ==
    IF status = "completed" THEN "returned"
    ELSE IF status = "failed" THEN "raised"
    ELSE "sleep"

Counted_up(n) == IF n < PollCount THEN n + 1 ELSE n

\* the copy was accepted with wait_completion: the loop is about to poll the
\* status location, whose operation is in any state
InitPoll ==
    /\ HandleIdle
    /\ \E st \in PollAnswers :
         fs = [op |-> "polling", pc |-> "poll", endpoint |-> st, last |-> None,
               polls |-> 0, delays |-> 0, exc |-> NoExc]

\* status = await self._get_copy_status(status_url), and the tests on it
Poll ==
    /\ fs.op = "polling" /\ fs.pc = "poll"
    /\ fs' = [fs EXCEPT !.pc = after_status(get_copy_status(fs.endpoint)),
                        !.last = fs.endpoint,
                        !.polls = Counted_up(@),
                        !.exc = IF after_status(get_copy_status(fs.endpoint)) = "raised"
                                THEN CopyFailed ELSE NoExc]
    /\ HandleUnchanged

\* await asyncio.sleep(1), then the next turn of while True
Sleep ==
    /\ fs.op = "polling" /\ fs.pc = "sleep"
    /\ fs' = [fs EXCEPT !.pc = "poll", !.delays = Counted_up(@)]
    /\ HandleUnchanged

\* the copy operation on the server moves on; completed and failed are final
EndpointMoves ==
    /\ fs.op = "polling" /\ ~Terminal_status(fs.endpoint)
    /\ \E st \in PollAnswers \ {fs.endpoint} : fs' = [fs EXCEPT !.endpoint = st]
    /\ HandleUnchanged

NextPoll == Poll \/ Sleep \/ EndpointMoves

\* the coroutine is scheduled: a poll is answered and a sleep ends
SpecPoll == InitPoll /\ [][NextPoll]_vars /\ WF_vars(Poll) /\ WF_vars(Sleep)

PollOver == fs.op = "polling" /\ fs.pc \in {"returned", "raised"}

\* C36: once the status location answers completed or failed the copy ends
\* (it returns, or raises the copy failure); and it ends only on such an
\* answer: after an answer that is neither (inProgress, notStarted, no
\* status field) it sleeps and polls again, however many polls were made.
C36_PollsUntilTerminal ==
    /\ (fs.op = "polling" /\ Terminal_status(fs.endpoint)) ~> PollOver
    /\ [](PollOver => /\ Terminal_status(fs.last)
                      /\ fs.pc = "returned" <=> fs.last = "completed")
    /\ []((fs.op = "polling" /\ fs.pc = "sleep") => ~Terminal_status(fs.last))

\* the copy returned after more polls and delays than are counted
C36_Witness ==
    /\ fs.op = "polling" /\ fs.pc = "returned" /\ fs.last = "completed"
    /\ fs.polls = PollCount /\ fs.delays = PollCount

====
